---------------------------- MODULE Spec2Model ----------------------------
(***************************************************************************)
(* GAP Audit & Token Manager (Figma plugin).                               *)
(*                                                                         *)
(* The plugin is an event-driven program: the host delivers the plugin     *)
(* start, selectionchange events and UI messages; every handler starts an  *)
(* async function (scanSelection, linkGapToToken) that runs synchronously  *)
(* up to its next await on a host promise, and is resumed when the host    *)
(* settles that promise.  One action of the model is one such run: a       *)
(* handler up to its first host await, or a resumption up to the next host *)
(* await or to the end, the .then callback that posts the result included. *)
(* Host calls may fail: an async one by rejecting, a sync one by throwing. *)
(***************************************************************************)
EXTENDS Naturals, Integers, Sequences, FiniteSets, TLC

(***************************************************************************)
(* Bounds of the model.                                                    *)
(***************************************************************************)
\* user events (selection changes and UI messages) delivered in one run
MaxEvents == 2

(***************************************************************************)
(* The document the plugin runs in (the host's state at plugin start).     *)
(***************************************************************************)
Nodes == {"A", "B", "D", "N", "T"}

\* node.type
NodeType == [n \in Nodes |->
               CASE n = "A" -> "FRAME"
                 [] n = "B" -> "INSTANCE"
                 [] n = "D" -> "FRAME"
                 [] n = "N" -> "COMPONENT"
                 [] n = "T" -> "TEXT"]

\* node.layoutMode (a text node has none: undefined)
LayoutMode == [n \in Nodes |->
               CASE n = "A" -> "HORIZONTAL"
                 [] n = "B" -> "VERTICAL"
                 [] n = "D" -> "VERTICAL"
                 [] n = "N" -> "NONE"
                 [] n = "T" -> "undefined"]

\* node.itemSpacing
ItemSpacing == [n \in Nodes |-> IF n = "A" THEN 8 ELSE 0]

\* figma.currentPage.selection can be any of these lists
Selections == {<<>>, <<"A">>, <<"B">>, <<"D">>, <<"N">>, <<"T">>, <<"A", "B">>}

\* the selection at plugin start
InitSelections == {<<>>}

\* a node id no node of the document has (getNodeByIdAsync gives null)
MissingNode == "X"

\* JS null / undefined, per type of value
NoVar  == 0          \* no variable id
NoVal  == 0 - 1      \* no numeric value (null, undefined, or not a number)
NaNVal == 0 - 2      \* a number that is not finite (NaN, Infinity)
NoColl == "none"     \* no variableCollectionId
NoName == <<>>       \* null, undefined or the empty string
NoNode == "none"

\* the bindable properties of a node that the model keeps
Props == {"itemSpacing", "paddingTop"}

\* Names are strings: sequences of characters.
Chars == {"a", "n", "s", " "}

\* String.prototype.trim: the string without its leading and trailing blanks
RECURSIVE TrimLeft(_)
TrimLeft(s) == IF s # <<>> /\ Head(s) = " " THEN TrimLeft(Tail(s)) ELSE s

RECURSIVE TrimRight(_)
TrimRight(s) == IF s # <<>> /\ s[Len(s)] = " "
                THEN TrimRight(SubSeq(s, 1, Len(s) - 1)) ELSE s

Trim(s) == TrimRight(TrimLeft(s))

\* the variable collections of the document
CollIds == {"c1"}
CollName == [c \in CollIds |-> "Spacing"]
CollModes == [c \in CollIds |-> <<"m1", "m2">>]
\* collection.defaultModeId ("" when it has none)
CollDefaultMode == [c \in CollIds |-> "m2"]
Modes == {"m0", "m1", "m2"}

\* the modes of a variable: those of its collection
ModesOf(coll) == IF coll = NoColl THEN <<"m0">> ELSE CollModes[coll]

\* the local variables at plugin start
InitVariables ==
  1 :> [name |-> <<"a">>, type |-> "FLOAT", coll |-> "c1",
        vals |-> [m \in Modes |-> CASE m = "m1" -> 4 [] m = "m2" -> 6 [] OTHER -> NoVal]]
  @@
  2 :> [name |-> <<"s">>, type |-> "STRING", coll |-> NoColl,
        vals |-> [m \in Modes |-> NoVal]]
  @@
  3 :> [name |-> <<"s", "n">>, type |-> "FLOAT", coll |-> NoColl,
        vals |-> [m \in Modes |-> IF m = "m0" THEN 2 ELSE NoVal]]

\* the variable bindings of the nodes at plugin start: the gap of B is bound to
\* variable 1, the gap of D to a variable that was deleted since
InitBound == [n \in Nodes |->
               [p \in Props |->
                  CASE n = "B" /\ p = "itemSpacing" -> 1
                    [] n = "D" /\ p = "itemSpacing" -> 7
                    [] n = "A" /\ p = "paddingTop" -> 1
                    [] OTHER -> NoVar]]

(***************************************************************************)
(* The arguments a link-token message can carry.                           *)
(***************************************************************************)
LinkNodes   == {"A", "N", MissingNode}
TokenNames  == {<<"a">>, <<" ", "a">>, <<"s">>, <<"n">>, <<" ">>, NoName}
GapTypes    == {"itemSpacing", "paddingTop"}
\* no id, the id of a FLOAT variable, an id no variable has
TokenIds    == {NoVar, 1, 9}
\* no value, zero, a value that differs from every gap of the document, a
\* number that is not finite
TokenValues == {NoVal, 0, 5, NaNVal}

(***************************************************************************)
(* State.                                                                  *)
(***************************************************************************)
VARIABLES
  variant,     \* the version of the plugin that runs: "code" or "part_002"
  editorType,  \* figma.editorType
  hasVars,     \* whether figma.variables is defined
  phase,       \* "init" before the main code ran, then "open" or "closed"
  selection,   \* figma.currentPage.selection
  bound,       \* node.boundVariables, per node and property
  variables,   \* the local variables, by id
  cache,       \* variableCollectionsCache
  tasks,       \* the async functions (and timers) in flight
  outbox,      \* the messages posted to the UI, in order: of each its type and
               \* the operation whose result it carries
  returned,    \* the operation that returned in the last step, with the message
               \* posted for it in full (NoReturn when none returned; when the
               \* last step handled a UI message other than 'scan' and
               \* 'link-token', NoReturn with the type of that message as origin)
  linked,      \* per node, the variable of the last linkGapToToken call that
               \* returned success for it (NoVar when none did)
  lastLink,    \* the node and the token named by the last linkGapToToken call
               \* that returned, when it returned success (NoLink otherwise)
  uiWidth,     \* the width of the plugin's UI window
  nops,        \* operations started so far (gives each its id)
  nevents      \* user events delivered so far

vars == <<variant, editorType, hasVars, phase, selection, bound, variables,
          cache, tasks, outbox, returned, linked, lastLink, uiWidth, nops, nevents>>

\* the versions of the plugin in the repository that the model runs: code.js,
\* and the later version of unnamed/part_002 (lines 257-1045), which creates
\* tokens inside a collection
Variants == {"code", "part_002"}

\* figma.showUI(__html__, {width: 420, height: 640})
ShownWidth == 420

\* a host call, on the mode `arg` of a variable when it reads or writes a
\* value by mode, and whether it succeeded
CallOn(op, arg, ok) == [op |-> op, arg |-> arg, ok |-> ok]

\* a host call and whether it succeeded
Call(op, ok) == CallOn(op, "", ok)

\* variableCollectionsCache = null
EmptyCache == [filled |-> FALSE, colls |-> {}, asof |-> 0]

\* variableCollectionsCache = collections || [], or [] when the host rejected
\* (code.js 27, 33), set when the fetch of task t settles; asof is the number
\* of variables the document had when that fetch was issued
Cached(colls, t) == [filled |-> TRUE, colls |-> colls, asof |-> t.asof]

\* the awaits of getLocalVariableCollectionsAsync
FetchPcs == {"s_colls", "l_colls", "l_value"}

(***************************************************************************)
(* Records.                                                                *)
(***************************************************************************)
\* what started an operation: the selection a scan found, or the fields of a
\* link-token message
Req(sel, nodeId, tokenName, gapType, tokenId, tokenValue) ==
  [sel |-> sel, nodeId |-> nodeId, tokenName |-> tokenName, gapType |-> gapType,
   tokenId |-> tokenId, tokenValue |-> tokenValue]

ScanReq(sel) == Req(sel, NoNode, NoName, "", NoVar, NoVal)

\* gapInfo as getGapInfo first builds it: no token (code.js 257-269)
createGapInfo(node) ==
  [nodeId |-> node, itemSpacing |-> IF node \in Nodes THEN ItemSpacing[node] ELSE NoVal,
   itemSpacingToken |-> NoName, itemSpacingTokenValue |-> NoVal,
   itemSpacingTokenId |-> NoVar, itemSpacingTokenFullPath |-> <<>>,
   itemSpacingTokenCollectionPath |-> ""]

\* no gapInfo
NoGapInfo == createGapInfo(NoNode)

\* an async function in flight, suspended at the host await `pc`; calls are the
\* host calls it has made, in order, each with its outcome; linked is, for a
\* scan of one node, what `linked` held for the node when the scan began,
\* alias the variable getGapInfo found the node's itemSpacing bound to, and
\* colls the collections getAllVariableCollections returned to it; of a link of
\* part_002, collectionId is the argument of that name, created the variable
\* it has created and var the variable it binds; step tells which await of
\* getAllVariableCollections a scan of part_002 is at, and listed the variables
\* getLocalVariablesAsync gave it; during are the links that were in flight
\* when a link was called, and asof, of a function that awaits the collections,
\* the number of variables of the document when it asked the host
Task(id, kind, origin, pc, req) ==
  [id |-> id, kind |-> kind, origin |-> origin, pc |-> pc, req |-> req,
   parent |-> 0, node |-> NoNode, alias |-> NoVar, linked |-> NoVar,
   colls |-> {}, gapInfo |-> NoGapInfo, calls |-> <<>>,
   collectionId |-> NoColl, created |-> NoVar, var |-> NoVar, step |-> 0,
   listed |-> {}, during |-> {}, asof |-> 0]

\* the data of a scan-result message: {success: false, message}
ScanFailure(message) ==
  [type |-> "scan-result", success |-> FALSE, message |-> message,
   hasGapInfo |-> FALSE, gapInfo |-> NoGapInfo,
   hasTokens |-> FALSE, availableTokens |-> <<>>,
   tokenName |-> NoName, tokenValue |-> NoVal,
   collections |-> {}]

\* the data of a scan-result message: {success: true, gapInfo, availableTokens}
ScanSuccess(gapInfo, tokens) ==
  [type |-> "scan-result", success |-> TRUE, message |-> "",
   hasGapInfo |-> TRUE, gapInfo |-> gapInfo,
   hasTokens |-> TRUE, availableTokens |-> tokens,
   tokenName |-> NoName, tokenValue |-> NoVal,
   collections |-> {}]

\* the data of a link-result message: {success: false, message}
LinkFailure(message) ==
  [type |-> "link-result", success |-> FALSE, message |-> message,
   hasGapInfo |-> FALSE, gapInfo |-> NoGapInfo,
   hasTokens |-> FALSE, availableTokens |-> <<>>,
   tokenName |-> NoName, tokenValue |-> NoVal,
   collections |-> {}]

\* the data of a link-result message: {success: true, message, tokenName, tokenValue}
LinkSuccess(name, value) ==
  [type |-> "link-result", success |-> TRUE, message |-> "Linked",
   hasGapInfo |-> FALSE, gapInfo |-> NoGapInfo,
   hasTokens |-> FALSE, availableTokens |-> <<>>,
   tokenName |-> name, tokenValue |-> value,
   collections |-> {}]

\* the node and the token a link-token request names: the token by its id
\* when the request has one, else by its name
TokenOf(req) ==
  [nodeId |-> req.nodeId, tokenId |-> req.tokenId,
   tokenName |-> IF req.tokenId # NoVar THEN NoName ELSE req.tokenName]

\* no link has returned success last
NoLink == TokenOf(ScanReq(<<>>))

\* the variables, the bindings, the cache and the last link as they are
Snapshot ==
  [variables |-> variables, bound |-> bound, cache |-> cache, lastLink |-> lastLink]

\* an operation returns and its callback posts {type, data} to the UI: the
\* message, with the operation that produced data, the event and the request
\* that started it, the host calls it made, the callback that posted the
\* message ("then" or "catch") and the state the returning step began in
Msg(t, calls, via, data) ==
  [op |-> t.id, origin |-> t.origin, parent |-> t.parent, req |-> t.req,
   linked |-> t.linked, alias |-> t.alias, colls |-> t.colls, calls |-> calls, via |-> via,
   collectionId |-> t.collectionId, created |-> t.created, during |-> t.during,
   before |-> Snapshot] @@ data

\* what outbox keeps of a message
Header(m) ==
  [type |-> m.type, op |-> m.op, origin |-> m.origin, parent |-> m.parent, via |-> m.via]

\* no operation returned in the last step
NoReturn ==
  [Msg(Task(0, "", "", "", ScanReq(<<>>)), <<>>, "", [ScanFailure("") EXCEPT !.type = ""])
     EXCEPT !.before = [variables |-> InitVariables, bound |-> InitBound,
                        cache |-> EmptyCache, lastLink |-> NoLink]]

\* figma.ui.postMessage
Post(m) ==
  /\ outbox' = Append(outbox, Header(m))
  /\ returned' = m

\* a step in which nothing is posted
NoPost ==
  /\ outbox' = outbox
  /\ returned' = NoReturn

\* the types of UI message other than 'scan', 'link-token' and 'cancel'
OtherTypes == {"change-viewport", "other"}

\* the last step handled a UI message of this type, and no operation
\* returned in it
Handled(type) == [NoReturn EXCEPT !.origin = type]

(***************************************************************************)
(* Pure helpers of the read path.                                          *)
(***************************************************************************)
\* (faulty version: a type test that accepts every node of the document)
isAnyNode(n) == n \in Nodes

\* code.js 6-8
isFrameOrAutoLayout(n) ==
  n \in Nodes /\ NodeType[n] \in {"FRAME", "COMPONENT", "COMPONENT_SET", "INSTANCE"}

\* String.prototype.localeCompare on the characters of the model
CharRank(c) == CASE c = " " -> 0 [] c = "a" -> 1 [] c = "n" -> 2 [] c = "s" -> 3

RECURSIVE NameLess(_, _)
NameLess(x, y) ==
  IF y = <<>> THEN FALSE
  ELSE IF x = <<>> THEN TRUE
  ELSE IF Head(x) # Head(y) THEN CharRank(Head(x)) < CharRank(Head(y))
  ELSE NameLess(Tail(x), Tail(y))

\* Array.prototype.sort by name (stable: equal names keep the list's order,
\* which is the order of the ids)
RECURSIVE SortByName(_, _)
SortByName(ids, store) ==
  IF ids = {} THEN <<>>
  ELSE LET first == CHOOSE i \in ids : \A j \in ids \ {i} :
                      \/ NameLess(store[i].name, store[j].name)
                      \/ (store[i].name = store[j].name /\ i < j)
       IN <<first>> \o SortByName(ids \ {first}, store)

\* the value of a variable in its first mode (code.js 383-398): getValueForMode,
\* or valuesByMode when that throws; both give the same value
FirstModeValue(v) == v.vals[ModesOf(v.coll)[1]]

\* getAvailableTokens on the list the host returned (code.js 380-405)
TokenList(store) ==
  LET floats == {i \in DOMAIN store : store[i].type = "FLOAT"}
      sorted == SortByName(floats, store)
  IN [k \in 1..Len(sorted) |->
        [id |-> sorted[k], name |-> store[sorted[k]].name,
         value |-> FirstModeValue(store[sorted[k]])]]

\* (faulty version: the bound variable is not written to gapInfo)
ResolveNothing(node, id, colls) == createGapInfo(node)

\* (faulty version: the path is the name of the variable alone)
BareName(v, found) == v.name

\* Build full path (code.js 329-335): 'collectionName/name' when the
\* collection was found, else 'collectionId/name', else the name
FullPath(v, found) ==
  IF found THEN <<CollName[v.coll], "/">> \o v.name
  ELSE IF v.coll # NoColl THEN <<v.coll, "/">> \o v.name
  ELSE v.name

\* getGapInfo once the bound variable is found (code.js 306-349); colls is the
\* list getAllVariableCollections returned (empty when it was not asked)
ResolveToken(node, id, colls) ==
  LET v == variables[id]
      found == v.coll # NoColl /\ v.coll \in colls
      modeId == IF found THEN CollDefaultMode[v.coll] ELSE ModesOf(v.coll)[1]
  IN [createGapInfo(node) EXCEPT
        !.itemSpacingToken = v.name,
        !.itemSpacingTokenValue = v.vals[modeId],
        !.itemSpacingTokenId = id,
        !.itemSpacingTokenFullPath = FullPath(v, found),
        !.itemSpacingTokenCollectionPath =
            IF found THEN CollName[v.coll] ELSE IF v.coll # NoColl THEN v.coll ELSE ""]

(***************************************************************************)
(* The read path: scanSelection (code.js 412-474), getGapInfo (232-373),   *)
(* getAllVariableCollections (14-39), getAvailableTokens (376-409).        *)
(***************************************************************************)
\* (faulty version: the result of the scan is not posted)
LoseScan(rest, t, calls, data) ==
  /\ tasks' = rest
  /\ outbox' = outbox
  /\ returned' = returned

\* scanSelection returns: its .then callback posts the scan-result
PostScan(rest, t, calls, data) ==
  /\ Post(Msg(t, calls, "then", data))
  /\ tasks' = rest

\* an async function suspends at a host await
Suspend(rest, t) ==
  /\ tasks' = rest \cup {[t EXCEPT !.asof = IF t.pc \in FetchPcs
                                            THEN Cardinality(DOMAIN variables') ELSE 0]}
  /\ NoPost

\* scanSelection from `const result = {...}` on (code.js 457-461): with no
\* Variables API getAvailableTokens returns [] at once, else it awaits the host
ScanTokens(rest, t, calls, gapInfo) ==
  IF hasVars
  THEN Suspend(rest, [t EXCEPT !.pc = "s_tokens", !.gapInfo = gapInfo, !.calls = calls])
  ELSE PostScan(rest, t, calls, ScanSuccess(gapInfo, <<>>))

\* scanSelection from its call to its first host await (code.js 412-440,
\* getGapInfo 232-287), the selection being sel; rest are the other tasks,
\* parent the link operation whose timer called it
ScanStart(rest, origin, parent, sel) ==
  LET t == [Task(nops + 1, "scan", origin, "start", ScanReq(sel)) EXCEPT !.parent = parent]
      node == sel[1]
  IN /\ nops' = nops + 1
     /\ UNCHANGED <<bound, variables, cache, linked, lastLink>>
     /\ IF Len(sel) = 0 THEN PostScan(rest, t, <<>>, ScanFailure("SelectFrame"))
        ELSE IF Len(sel) > 1 THEN PostScan(rest, t, <<>>, ScanFailure("SelectOne"))
        ELSE IF ~isFrameOrAutoLayout(node)
        THEN PostScan(rest, t, <<>>, ScanFailure("NotFrame"))
        ELSE IF LayoutMode[node] = "NONE"
        THEN PostScan(rest, t, <<>>, ScanFailure("NoAutoLayout"))
        ELSE IF bound[node].itemSpacing # NoVar
        THEN \* figma.variables.getVariableByIdAsync: a TypeError, caught at
             \* line 350, when figma.variables is undefined
             IF hasVars
             THEN Suspend(rest, [t EXCEPT !.pc = "s_var", !.node = node,
                                          !.linked = linked[node],
                                          !.alias = bound[node].itemSpacing])
             ELSE PostScan(rest, [t EXCEPT !.linked = linked[node],
                                           !.alias = bound[node].itemSpacing], <<>>,
                           ScanFailure("ResolveError"))
        ELSE ScanTokens(rest, [t EXCEPT !.node = node, !.linked = linked[node]], <<>>,
                        createGapInfo(node))

\* (faulty version: the cache is not looked at)
FetchesAlways == hasVars

\* getAllVariableCollections asks the host (code.js 16-26): the cache is
\* empty and the Variables API is there
MustFetchCollections == ~cache.filled /\ hasVars

\* (faulty version: a variable that is not found is taken for no binding)
ScanResumeVarLenient(t) ==
  /\ t \in tasks /\ t.kind = "scan" /\ t.pc = "s_var"
  /\ phase = "open"
  /\ UNCHANGED <<nops, bound, variables, cache, linked, lastLink>>
  /\ LET calls == Append(t.calls, Call("getVariableByIdAsync", TRUE)) IN
     IF t.alias \notin DOMAIN variables
     THEN ScanTokens(tasks \ {t}, t, calls, createGapInfo(t.node))
     ELSE ScanTokens(tasks \ {t}, [t EXCEPT !.colls = cache.colls], calls,
                     ResolveToken(t.node, t.alias, cache.colls))

\* the host settles getVariableByIdAsync (code.js 287-322)
ScanResumeVar(t) ==
  /\ t \in tasks /\ t.kind = "scan" /\ t.pc = "s_var"
  /\ phase = "open"
  /\ UNCHANGED <<nops, bound, variables, cache, linked, lastLink>>
  /\ \E ok \in BOOLEAN :
       LET calls == Append(t.calls, Call("getVariableByIdAsync", ok)) IN
       IF ~ok THEN PostScan(tasks \ {t}, t, calls, ScanFailure("ResolveError"))
       ELSE IF t.alias \notin DOMAIN variables
       THEN PostScan(tasks \ {t}, t, calls, ScanFailure("VariableNotFound"))
       ELSE IF variables[t.alias].coll # NoColl /\ MustFetchCollections
       THEN Suspend(tasks \ {t}, [t EXCEPT !.pc = "s_colls", !.calls = calls])
       ELSE ScanTokens(tasks \ {t}, [t EXCEPT !.colls = cache.colls], calls,
                       ResolveToken(t.node, t.alias, cache.colls))

\* the host settles getLocalVariableCollectionsAsync (code.js 26-34, 313-349)
ScanResumeColls(t) ==
  /\ t \in tasks /\ t.kind = "scan" /\ t.pc = "s_colls"
  /\ phase = "open"
  /\ UNCHANGED <<nops, bound, variables, linked, lastLink>>
  /\ \E ok \in BOOLEAN :
       LET colls == IF ok THEN CollIds ELSE {}
           calls == Append(t.calls, Call("getLocalVariableCollectionsAsync", ok))
       IN /\ cache' = Cached(colls, t)
          /\ ScanTokens(tasks \ {t}, [t EXCEPT !.colls = colls], calls,
                        ResolveToken(t.node, t.alias, colls))

\* (faulty version: the scan unbinds the gap it has read)
ScanResumeTokensUnbinding(t) ==
  /\ t \in tasks /\ t.kind = "scan" /\ t.pc = "s_tokens"
  /\ phase = "open"
  /\ bound' = [bound EXCEPT ![t.node]["itemSpacing"] = NoVar]
  /\ UNCHANGED <<nops, variables, cache, linked, lastLink>>
  /\ PostScan(tasks \ {t}, t, t.calls, ScanSuccess(t.gapInfo, TokenList(variables)))

\* the host settles getLocalVariablesAsync (code.js 379-408, 457-473)
ScanResumeTokens(t) ==
  /\ t \in tasks /\ t.kind = "scan" /\ t.pc = "s_tokens"
  /\ phase = "open"
  /\ UNCHANGED <<nops, bound, variables, cache, linked, lastLink>>
  /\ \E ok \in BOOLEAN :
       PostScan(tasks \ {t}, t, Append(t.calls, Call("getLocalVariablesAsync", ok)),
                ScanSuccess(t.gapInfo, IF ok THEN TokenList(variables) ELSE <<>>))

(***************************************************************************)
(* The read path of part_002: scanSelection (636-692), getGapInfo          *)
(* (356-446), getAllVariableCollections (335-352), getAvailableTokens      *)
(* (501-633).  scanSelection calls getAllVariableCollections up to three   *)
(* times: in getGapInfo when the bound variable has a collection, for the  *)
(* collections of its result, and in getAvailableTokens; a call asks the   *)
(* host only when the cache is empty.  No value of the model is an alias,  *)
(* so getAvailableTokens resolves none.                                    *)
(***************************************************************************)
\* getVariableValue (part_002 289-329): the value in the first mode when it
\* is a number, else the first value by mode that is one
getVariableValue(v) ==
  LET ms == ModesOf(v.coll)
      valued == {k \in 1..Len(ms) : v.vals[ms[k]] # NoVal}
  IN IF valued = {} THEN NoVal
     ELSE v.vals[ms[CHOOSE k \in valued : \A j \in valued : k <= j]]

\* the active mode of a collection (part_002 461-465, 524-529, 805-811, 841-845):
\* its default mode, its first mode when it has none
ActiveMode(c) == IF CollDefaultMode[c] # "" THEN CollDefaultMode[c] ELSE CollModes[c][1]

\* getVariableValueForActiveMode once the collections are there (part_002
\* 455-493), and the value getAvailableTokens gives a token (516-608): the
\* number in the active mode of the variable's collection, when the collection
\* is in the list, else getVariableValue
ActiveModeValue(v, colls) ==
  IF v.coll # NoColl /\ v.coll \in colls /\ v.vals[ActiveMode(v.coll)] \notin {NoVal, NaNVal}
  THEN v.vals[ActiveMode(v.coll)]
  ELSE getVariableValue(v)

\* getAvailableTokens on the listed variables and the collections (part_002
\* 509-629)
TokenListIn(ids, store, colls) ==
  LET floats == {i \in ids : store[i].type = "FLOAT"}
      sorted == SortByName(floats, store)
      value(v) == IF ActiveModeValue(v, colls) = NaNVal THEN NoVal
                  ELSE ActiveModeValue(v, colls)
  IN [k \in 1..Len(sorted) |->
        [id |-> sorted[k], name |-> store[sorted[k]].name,
         value |-> value(store[sorted[k]]),
         collectionId |-> store[sorted[k]].coll,
         collectionName |-> IF store[sorted[k]].coll \in colls
                            THEN CollName[store[sorted[k]].coll] ELSE ""]]

\* getGapInfo once the bound variable is found (part_002 404-434): as in
\* code.js, but the value is that of getVariableValue
ResolveTokenValue(node, id, colls) ==
  [ResolveToken(node, id, colls) EXCEPT
     !.itemSpacingTokenValue = getVariableValue(variables[id])]

\* the data of a scan-result message of part_002: {success: true, gapInfo,
\* availableTokens, collections}
ScanSuccessWith(gapInfo, tokens, colls) ==
  [ScanSuccess(gapInfo, tokens) EXCEPT !.collections = colls]

\* scanSelection returns its result (part_002 683-691), getAvailableTokens
\* having got the collections colls
ScanReturn(rest, t, calls, colls) ==
  PostScan(rest, t, calls,
           ScanSuccessWith(t.gapInfo, TokenListIn(t.listed, variables, colls), t.colls))

\* scanSelection has its collections (part_002 681-686) and calls
\* getAvailableTokens, which returns [] at once with no Variables API
ScanListTokens(rest, t, calls, colls) ==
  IF hasVars
  THEN Suspend(rest, [t EXCEPT !.pc = "s_tokens", !.colls = colls, !.calls = calls])
  ELSE PostScan(rest, t, calls, ScanSuccessWith(t.gapInfo, <<>>, colls))

\* scanSelection has its gapInfo and calls getAllVariableCollections
\* (part_002 664-681), the cache being c
ScanCollections(rest, t, calls, c) ==
  IF ~c.filled /\ hasVars
  THEN Suspend(rest, [t EXCEPT !.pc = "s_colls", !.step = 2, !.calls = calls])
  ELSE ScanListTokens(rest, t, calls, c.colls)

\* scanSelection from its call to its first host await (part_002 636-664,
\* getGapInfo 356-396)
ScanStartP2(rest, origin, parent, sel) ==
  LET t == [Task(nops + 1, "scan", origin, "start", ScanReq(sel)) EXCEPT !.parent = parent]
      node == sel[1]
  IN /\ nops' = nops + 1
     /\ UNCHANGED <<bound, variables, cache, linked, lastLink>>
     /\ IF Len(sel) = 0 THEN PostScan(rest, t, <<>>, ScanFailure("SelectFrame"))
        ELSE IF Len(sel) > 1 THEN PostScan(rest, t, <<>>, ScanFailure("SelectOne"))
        ELSE IF ~isFrameOrAutoLayout(node)
        THEN PostScan(rest, t, <<>>, ScanFailure("NotFrame"))
        ELSE IF LayoutMode[node] = "NONE"
        THEN PostScan(rest, t, <<>>, ScanFailure("NoAutoLayout"))
        ELSE IF bound[node].itemSpacing # NoVar
        THEN IF hasVars
             THEN Suspend(rest, [t EXCEPT !.pc = "s_var", !.node = node,
                                          !.linked = linked[node],
                                          !.alias = bound[node].itemSpacing])
             ELSE PostScan(rest, [t EXCEPT !.linked = linked[node],
                                           !.alias = bound[node].itemSpacing], <<>>,
                           ScanFailure("ResolveError"))
        ELSE ScanCollections(rest, [t EXCEPT !.node = node, !.linked = linked[node],
                                             !.gapInfo = createGapInfo(node)],
                             <<>>, cache)

\* the host settles getVariableByIdAsync (part_002 396-417)
ScanResumeVarP2(t) ==
  /\ t \in tasks /\ t.kind = "scan" /\ t.pc = "s_var"
  /\ phase = "open"
  /\ UNCHANGED <<nops, bound, variables, cache, linked, lastLink>>
  /\ \E ok \in BOOLEAN :
       LET calls == Append(t.calls, Call("getVariableByIdAsync", ok))
           resolved(colls) == [t EXCEPT !.gapInfo = ResolveTokenValue(t.node, t.alias, colls)]
       IN
       IF ~ok THEN PostScan(tasks \ {t}, t, calls, ScanFailure("ResolveError"))
       ELSE IF t.alias \notin DOMAIN variables
       THEN PostScan(tasks \ {t}, t, calls, ScanFailure("VariableNotFound"))
       ELSE IF variables[t.alias].coll = NoColl
       THEN ScanCollections(tasks \ {t}, resolved({}), calls, cache)
       ELSE IF MustFetchCollections
       THEN Suspend(tasks \ {t}, [t EXCEPT !.pc = "s_colls", !.step = 1, !.calls = calls])
       ELSE ScanCollections(tasks \ {t}, resolved(cache.colls), calls, cache)

\* the host settles getLocalVariableCollectionsAsync (part_002 345-351): the
\* list, or [] when it rejected, is cached and the caller goes on: getGapInfo
\* (408-434), scanSelection (681-686) or getAvailableTokens (507-629)
ScanResumeCollsP2(t) ==
  /\ t \in tasks /\ t.kind = "scan" /\ t.pc = "s_colls"
  /\ phase = "open"
  /\ UNCHANGED <<nops, bound, variables, linked, lastLink>>
  /\ \E ok \in BOOLEAN :
       LET colls == IF ok THEN CollIds ELSE {}
           c == Cached(colls, t)
           calls == Append(t.calls, Call("getLocalVariableCollectionsAsync", ok))
       IN /\ cache' = c
          /\ CASE t.step = 1 ->
                    ScanCollections(tasks \ {t},
                      [t EXCEPT !.gapInfo = ResolveTokenValue(t.node, t.alias, colls)],
                      calls, c)
               [] t.step = 2 -> ScanListTokens(tasks \ {t}, t, calls, colls)
               [] OTHER -> ScanReturn(tasks \ {t}, t, calls, colls)

\* the host settles getLocalVariablesAsync (part_002 505-507, 630-632): when
\* it rejects the tokens are [], else getAvailableTokens calls
\* getAllVariableCollections
ScanResumeTokensP2(t) ==
  /\ t \in tasks /\ t.kind = "scan" /\ t.pc = "s_tokens"
  /\ phase = "open"
  /\ UNCHANGED <<nops, bound, variables, cache, linked, lastLink>>
  /\ \/ PostScan(tasks \ {t}, t, Append(t.calls, Call("getLocalVariablesAsync", FALSE)),
                  ScanSuccessWith(t.gapInfo, <<>>, t.colls))
     \/ LET calls == Append(t.calls, Call("getLocalVariablesAsync", TRUE))
            u == [t EXCEPT !.listed = DOMAIN variables]
        IN IF MustFetchCollections
           THEN Suspend(tasks \ {t}, [u EXCEPT !.pc = "s_colls", !.step = 3, !.calls = calls])
           ELSE ScanReturn(tasks \ {t}, u, calls, cache.colls)

(***************************************************************************)
(* The write path: linkGapToToken (code.js 477-584).                       *)
(*                                                                         *)
(* Every host call may fail.  Each part of the body gives the set of its   *)
(* possible outcomes: the data returned, or that it threw, with the        *)
(* variables, the bindings and the host calls it leaves.                   *)
(***************************************************************************)
Returned(data, store, bnd, calls) ==
  [threw |-> FALSE, data |-> data, variables |-> store, bound |-> bnd, calls |-> calls]

Thrown(store, bnd, calls) ==
  [threw |-> TRUE, data |-> LinkFailure("Error"), variables |-> store, bound |-> bnd,
   calls |-> calls]

\* the id the host gives the next variable it creates
NextId(store) == CHOOSE i \in 1..(Cardinality(DOMAIN store) + 1) : i \notin DOMAIN store

\* figma.variables.createVariable(name, 'FLOAT'): a FLOAT variable in no
\* collection, of value 0 until one is set
NewVariable(name) ==
  [name |-> name, type |-> "FLOAT", coll |-> NoColl,
   vals |-> [m \in Modes |-> IF m = "m0" THEN 0 ELSE NoVal]]

\* (faulty version: the property that gapType names is bound)
LinkBindAnyGap(t, id, store, calls) ==
  IF LayoutMode[t.req.nodeId] # "NONE"
  THEN { Returned(LinkSuccess(store[id].name, FirstModeValue(store[id])),
                  store,
                  [bound EXCEPT ![t.req.nodeId][t.req.gapType] = id],
                  Append(calls, Call("setBoundVariable", TRUE))) }
  ELSE { Returned(LinkFailure("OnlyItemSpacing"), store, bound, calls) }

\* Apply variable to itemSpacing (code.js 545-577); the value of the response
\* is read with getValueForMode, or from valuesByMode when that throws
LinkBind(t, id, store, calls) ==
  IF t.req.gapType = "itemSpacing" /\ LayoutMode[t.req.nodeId] # "NONE"
  THEN { Thrown(store, bound, Append(calls, Call("setBoundVariable", FALSE))) }
       \cup { Returned(LinkSuccess(store[id].name, FirstModeValue(store[id])),
                       store,
                       [bound EXCEPT ![t.req.nodeId]["itemSpacing"] = id],
                       calls \o <<Call("setBoundVariable", TRUE),
                                  Call("getValueForMode", ok)>>) : ok \in BOOLEAN }
  ELSE { Returned(LinkFailure("OnlyItemSpacing"), store, bound, calls) }

\* the name the lookup compares with the names of the variables (code.js 516)
LookupName(tokenName) == tokenName

\* the name a new variable is created under (code.js 534)
CreateName(tokenName) == Trim(tokenName)

\* the value of a new variable (code.js 520-522)
GapValue(t) == IF t.req.tokenValue # NoVal THEN t.req.tokenValue
               ELSE ItemSpacing[t.req.nodeId]

\* (faulty version: the token name is not validated)
LinkFindOrCreateUnchecked(t, calls) ==
  LET named == {i \in DOMAIN variables : variables[i].name = LookupName(t.req.tokenName)}
      id == NextId(variables)
      created == id :> NewVariable(CreateName(t.req.tokenName)) @@ variables
      valued == [created EXCEPT ![id].vals["m0"] = GapValue(t)]
      made == Append(calls, Call("createVariable", TRUE))
  IN IF named # {}
     THEN LinkBind(t, CHOOSE i \in named : \A j \in named : i <= j, variables, calls)
     ELSE LinkBind(t, id, valued, Append(made, Call("setValueForMode", TRUE)))

\* Find or create variable, on the list the host returned (code.js 516-543)
LinkFindOrCreate(t, calls) ==
  LET named == {i \in DOMAIN variables : variables[i].name = LookupName(t.req.tokenName)}
      id == NextId(variables)
      created == id :> NewVariable(CreateName(t.req.tokenName)) @@ variables
      valued == [created EXCEPT ![id].vals["m0"] = GapValue(t)]
      made == Append(calls, Call("createVariable", TRUE))
  IN IF named # {}
     THEN LinkBind(t, CHOOSE i \in named : \A j \in named : i <= j, variables, calls)
     ELSE IF t.req.tokenName = NoName \/ Trim(t.req.tokenName) = <<>>
     THEN { Returned(LinkFailure("EmptyName"), variables, bound, calls) }
     ELSE { Returned(LinkFailure("CreateError"), variables, bound,
                     Append(calls, Call("createVariable", FALSE))),
            Returned(LinkFailure("CreateError"), created, bound,
                     Append(made, Call("setValueForMode", FALSE))) }
          \cup LinkBind(t, id, valued, Append(made, Call("setValueForMode", TRUE)))

\* (faulty version: the auto layout check left out)
LayoutNeverNone(n) == FALSE

\* Validate AutoLayout (code.js 488): node.layoutMode === 'NONE'
LayoutIsNone(n) == LayoutMode[n] = "NONE"

\* (faulty version: the token is looked up by name even when a tokenId is given)
LinkAlwaysLists(t) ==
  /\ isFrameOrAutoLayout(t.req.nodeId)
  /\ LayoutMode[t.req.nodeId] # "NONE"
  /\ hasVars

\* linkGapToToken awaits getLocalVariablesAsync after the node arrived
\* (code.js 480-515): the checks pass and no tokenId is given
LinkAwaitsVariables(t) ==
  /\ isFrameOrAutoLayout(t.req.nodeId)
  /\ ~LayoutIsNone(t.req.nodeId)
  /\ hasVars
  /\ t.req.tokenId = NoVar

\* from the node's arrival to the return, when a check fails or a tokenId is
\* given (code.js 479-513, 545-577)
LinkAfterNode(t) ==
  LET n == t.req.nodeId
      calls == <<Call("getNodeByIdAsync", TRUE)>>
      got == Append(calls, Call("getVariableById", TRUE))
  IN IF ~isFrameOrAutoLayout(n)
     THEN { Returned(LinkFailure("NodeNotFound"), variables, bound, calls) }
     ELSE IF LayoutIsNone(n)
     THEN { Returned(LinkFailure("NoAutoLayout"), variables, bound, calls) }
     ELSE IF ~hasVars
     THEN { Returned(LinkFailure("NoVariablesAPI"), variables, bound, calls) }
     ELSE { Thrown(variables, bound, Append(calls, Call("getVariableById", FALSE))) }
          \cup IF t.req.tokenId \notin DOMAIN variables
               THEN { Returned(LinkFailure("TokenNotFound"), variables, bound, got) }
               ELSE LinkBind(t, t.req.tokenId, variables, got)

\* (faulty version: no try/catch around the body)
NoCatch(o) == o

\* the try/catch around the body (code.js 478, 578-583): what is thrown inside
\* becomes the return value {success: false, message: 'Error: ...'}
TryCatch(o) == IF o.threw THEN [o EXCEPT !.threw = FALSE] ELSE o

\* the promise of linkGapToToken settles (code.js 609-626): .then posts the
\* result and sets the timer of the re-scan; .catch posts a failure
\* (t is the task as it was suspended, u the task that returns)
LinkSettle(t, u, o) ==
  /\ variables' = o.variables
  /\ bound' = o.bound
  /\ linked' = IF ~o.threw /\ o.data.success
               THEN [linked EXCEPT ![u.req.nodeId] = o.bound[u.req.nodeId].itemSpacing]
               ELSE linked
  /\ lastLink' = IF ~o.threw /\ o.data.success THEN TokenOf(u.req) ELSE NoLink
  /\ IF o.threw
     THEN /\ Post(Msg(u, o.calls, "catch", LinkFailure("Error")))
          /\ tasks' = tasks \ {t}
     ELSE /\ Post(Msg(u, o.calls, "then", o.data))
          /\ tasks' = (tasks \ {t}) \cup
                        {[Task(u.id, "timer", "relink", "t_wait", ScanReq(<<>>))
                            EXCEPT !.parent = u.id]}

\* linkGapToToken(nodeId, tokenName, gapType, tokenId, tokenValue) runs on
\* after the host settled getNodeByIdAsync: it rejected, or gave the node or
\* null.  The arguments are inputs the code only reads, none before this
\* point: the model draws them where they are read, tokenValue (read at
\* code.js 520 only) when no variable has the token name, the others here.
LinkResumeNode(t) ==
  /\ t \in tasks /\ t.kind = "link" /\ t.pc = "l_node"
  /\ phase = "open"
  /\ UNCHANGED <<nops, cache>>
  /\ \E n \in LinkNodes, name \in TokenNames, g \in GapTypes, id \in TokenIds :
       LET u == [t EXCEPT !.req = Req(t.req.sel, n, name, g, id, NoVal)] IN
       \/ LinkSettle(t, u, TryCatch(Thrown(variables, bound,
                                           <<Call("getNodeByIdAsync", FALSE)>>)))
       \/ /\ LinkAwaitsVariables(u)
          /\ UNCHANGED <<variables, bound, linked, lastLink>>
          /\ Suspend(tasks \ {t}, [u EXCEPT !.pc = "l_vars",
                                            !.calls = <<Call("getNodeByIdAsync", TRUE)>>])
       \/ /\ ~LinkAwaitsVariables(u)
          /\ \E o \in LinkAfterNode(u) : LinkSettle(t, u, TryCatch(o))

\* linkGapToToken reads tokenValue (code.js 518-522): no variable of the list
\* has the token name
ReadsTokenValue(t) ==
  \A i \in DOMAIN variables : variables[i].name # LookupName(t.req.tokenName)

\* the host settles getLocalVariablesAsync: it rejects, or gives the list
LinkResumeVariables(t) ==
  /\ t \in tasks /\ t.kind = "link" /\ t.pc = "l_vars"
  /\ phase = "open"
  /\ UNCHANGED <<nops, cache>>
  /\ \/ LinkSettle(t, t, TryCatch(Thrown(variables, bound,
                                         Append(t.calls, Call("getLocalVariablesAsync", FALSE)))))
     \/ \E val \in (IF ReadsTokenValue(t) THEN TokenValues ELSE {NoVal}) :
          LET u == [t EXCEPT !.req.tokenValue = val] IN
          \E o \in LinkFindOrCreate(u, Append(t.calls, Call("getLocalVariablesAsync", TRUE))) :
            LinkSettle(t, u, TryCatch(o))

(***************************************************************************)
(* The write path of part_002: linkGapToToken (695-976).  It awaits the    *)
(* host up to five times (the node, the variable of tokenId or the list of *)
(* variables, the collections before a creation, the collections for the   *)
(* value of the response), and what it writes is written at the step that  *)
(* writes it: the creation before the binding, the binding before the      *)
(* last await.                                                             *)
(***************************************************************************)
\* the collectionId a link-token message can carry: none, that of a
\* collection, one no collection has
CollectionIds == {NoColl, "c1", "c9"}

\* Determine the value to use (part_002 748-771): tokenValue when it is a
\* finite number, else the gap of the node
GapValueP2(t) == IF t.req.tokenValue \notin {NoVal, NaNVal} THEN t.req.tokenValue
                 ELSE ItemSpacing[t.req.nodeId]

\* figma.variables.createVariable(name, collection, 'FLOAT'): a FLOAT variable
\* of the collection, of value 0 in each of its modes until one is set
NewVariableIn(name, coll) ==
  [name |-> name, type |-> "FLOAT", coll |-> coll,
   vals |-> [m \in Modes |->
               IF \E k \in DOMAIN ModesOf(coll) : ModesOf(coll)[k] = m THEN 0 ELSE NoVal]]

\* what a creation comes to: whether it threw, the variables and the host
\* calls it leaves, the variable it created and whether it cleared the cache
Creation(failed, store, calls, created, cleared) ==
  [failed |-> failed, store |-> store, calls |-> calls, created |-> created,
   cleared |-> cleared]

\* variable.setValueForMode(mode, value) for each mode of the list in turn
\* (part_002 852, 866-871, 875-880, 884-889, 900): every call may throw, which
\* ends the creation
RECURSIVE SetInModes(_, _, _, _)
SetInModes(o, id, modes, value) ==
  IF modes = <<>> THEN {o}
  ELSE {[o EXCEPT !.failed = TRUE,
                  !.calls = Append(@, CallOn("setValueForMode", Head(modes), FALSE))]}
       \cup SetInModes([o EXCEPT !.store[id].vals[Head(modes)] = value,
                                 !.calls = Append(@, CallOn("setValueForMode", Head(modes), TRUE))],
                       id, Tail(modes), value)

\* (faulty version: the value is set again whatever the verification gives)
VerifyAndSetAgain(o, id, coll, value) ==
  UNION { SetInModes([o EXCEPT !.calls = Append(@, CallOn("getValueForMode",
                                                         ActiveMode(coll), ok))],
                     id, CollModes[coll], value) : ok \in BOOLEAN }

\* Verify the value was set (part_002 855-881): getValueForMode reads it back;
\* when it throws, or gives null or 0 for a value that is not 0, the value is
\* set in all the modes of the collection
Verify(o, id, coll, value) ==
  LET mode == ActiveMode(coll)
      read(ok) == [o EXCEPT !.calls = Append(@, CallOn("getValueForMode", mode, ok))]
  IN (IF o.store[id].vals[mode] \in {NoVal, 0} /\ value # 0
      THEN SetInModes(read(TRUE), id, CollModes[coll], value)
      ELSE {read(TRUE)})
     \cup SetInModes(read(FALSE), id, CollModes[coll], value)

\* Create new variable in the collection (part_002 825-891): the value is set
\* in the active mode of the collection, verified, and set in the other modes
CreateInCollection(t, coll, calls) ==
  LET id == NextId(variables)
      value == GapValueP2(t)
      IsOther(m) == m # ActiveMode(coll)
      made == Creation(FALSE, id :> NewVariableIn(CreateName(t.req.tokenName), coll) @@ variables,
                       Append(calls, Call("createVariable", TRUE)), id, TRUE)
      set == SetInModes(made, id, <<ActiveMode(coll)>>, value)
      verified == UNION {IF o.failed THEN {o} ELSE Verify(o, id, coll, value) : o \in set}
  IN {Creation(TRUE, variables, Append(calls, Call("createVariable", FALSE)), NoVar, FALSE)}
     \cup UNION {IF o.failed THEN {o}
                 ELSE SetInModes(o, id, SelectSeq(CollModes[coll], IsOther), value) :
                 o \in verified}

\* Create new variable without collection (part_002 892-902)
CreateOutside(t, calls) ==
  LET id == NextId(variables)
      made == Creation(FALSE, id :> NewVariableIn(CreateName(t.req.tokenName), NoColl) @@ variables,
                       Append(calls, Call("createVariable", TRUE)), id, FALSE)
  IN {Creation(TRUE, variables, Append(calls, Call("createVariable", FALSE)), NoVar, FALSE)}
     \cup SetInModes(made, id, <<"m0">>, GapValueP2(t))

\* Apply variable to itemSpacing (part_002 915-969), the variables being
\* store and the cache c: the token value of the response is that of the
\* active mode of the variable's collection, for which
\* getVariableValueForActiveMode awaits the collections when the cache is
\* empty
LinkBindP2(t, u, id, store, calls, c) ==
  IF u.req.gapType = "itemSpacing" /\ LayoutMode[u.req.nodeId] # "NONE"
  THEN \/ /\ cache' = c
          /\ LinkSettle(t, u, TryCatch(Thrown(store, bound,
                                              Append(calls, Call("setBoundVariable", FALSE)))))
       \/ LET bnd == [bound EXCEPT ![u.req.nodeId]["itemSpacing"] = id]
              set == Append(calls, Call("setBoundVariable", TRUE))
          IN /\ cache' = c
             /\ IF store[id].coll # NoColl /\ ~c.filled
                THEN /\ variables' = store
                     /\ bound' = bnd
                     /\ UNCHANGED <<linked, lastLink>>
                     /\ Suspend(tasks \ {t}, [u EXCEPT !.pc = "l_value", !.var = id,
                                                        !.calls = set])
                ELSE LinkSettle(t, u, Returned(LinkSuccess(store[id].name,
                                                           ActiveModeValue(store[id], c.colls)),
                                               store, bnd, set))
  ELSE /\ cache' = c
       /\ LinkSettle(t, u, Returned(LinkFailure("OnlyItemSpacing"), store, bound, calls))

\* after the creation (part_002 903-913): a throw is returned as a failure,
\* else the cache is cleared and the variable bound; c is the cache the
\* creation began with
LinkCreated(t, u, o, c) ==
  LET v == [u EXCEPT !.created = o.created] IN
  IF o.failed
  THEN /\ cache' = IF o.cleared THEN EmptyCache ELSE c
       /\ LinkSettle(t, v, Returned(LinkFailure("CreateError"), o.store, bound, o.calls))
  ELSE LinkBindP2(t, v, o.created, o.store, o.calls, EmptyCache)

\* the checks after the node arrived (part_002 698-718): the failure they
\* return, "" when they pass
LinkChecks(u) ==
  IF ~isFrameOrAutoLayout(u.req.nodeId) THEN "NodeNotFound"
  ELSE IF LayoutIsNone(u.req.nodeId) THEN "NoAutoLayout"
  ELSE IF ~hasVars THEN "NoVariablesAPI"
  ELSE ""

\* the host settles getNodeByIdAsync (part_002 697-740): it rejected, or gave
\* the node or null; after the checks linkGapToToken awaits the variable of
\* tokenId, or the list of variables when no tokenId is given
LinkResumeNodeP2(t) ==
  /\ t \in tasks /\ t.kind = "link" /\ t.pc = "l_node"
  /\ phase = "open"
  /\ UNCHANGED <<nops, cache>>
  /\ \E n \in LinkNodes, name \in TokenNames, g \in GapTypes, id \in TokenIds :
       LET u == [t EXCEPT !.req = Req(t.req.sel, n, name, g, id, NoVal)]
           calls == <<Call("getNodeByIdAsync", TRUE)>>
       IN
       \/ LinkSettle(t, u, TryCatch(Thrown(variables, bound,
                                           <<Call("getNodeByIdAsync", FALSE)>>)))
       \/ /\ LinkChecks(u) # ""
          /\ LinkSettle(t, u, Returned(LinkFailure(LinkChecks(u)), variables, bound, calls))
       \/ /\ LinkChecks(u) = ""
          /\ Suspend(tasks \ {t}, [u EXCEPT !.pc = IF id # NoVar THEN "l_var" ELSE "l_vars",
                                            !.calls = calls])
          /\ UNCHANGED <<variables, bound, linked, lastLink>>

\* the host settles getVariableByIdAsync (part_002 723-737): it rejected,
\* or gave the variable or null
LinkResumeVarP2(t) ==
  /\ t \in tasks /\ t.kind = "link" /\ t.pc = "l_var"
  /\ phase = "open"
  /\ UNCHANGED nops
  /\ \/ /\ cache' = cache
        /\ LinkSettle(t, t, Returned(LinkFailure("TokenError"), variables, bound,
                                     Append(t.calls, Call("getVariableByIdAsync", FALSE))))
     \/ LET calls == Append(t.calls, Call("getVariableByIdAsync", TRUE)) IN
        IF t.req.tokenId \notin DOMAIN variables
        THEN /\ cache' = cache
             /\ LinkSettle(t, t, Returned(LinkFailure("TokenNotFound"), variables, bound, calls))
        ELSE LinkBindP2(t, t, t.req.tokenId, variables, calls, cache)

\* the host settles getLocalVariablesAsync (part_002 740-818, 892-913): it
\* rejected, or gave the list.  A variable of the token name is bound; when
\* there is none, tokenValue and then collectionId are read, the cache is
\* cleared, and the variable is created: at once without a collectionId,
\* else after the collections have arrived
LinkResumeVariablesP2(t) ==
  /\ t \in tasks /\ t.kind = "link" /\ t.pc = "l_vars"
  /\ phase = "open"
  /\ UNCHANGED nops
  /\ \/ /\ cache' = cache
        /\ LinkSettle(t, t, TryCatch(Thrown(variables, bound,
                                            Append(t.calls, Call("getLocalVariablesAsync", FALSE)))))
     \/ LET calls == Append(t.calls, Call("getLocalVariablesAsync", TRUE))
            named == {i \in DOMAIN variables : variables[i].name = LookupName(t.req.tokenName)}
            empty == t.req.tokenName = NoName \/ Trim(t.req.tokenName) = <<>>
        IN
        IF named # {}
        THEN LinkBindP2(t, t, CHOOSE i \in named : \A j \in named : i <= j,
                        variables, calls, cache)
        ELSE \E val \in TokenValues, coll \in (IF empty THEN {NoColl} ELSE CollectionIds) :
               LET u == [t EXCEPT !.req.tokenValue = val, !.collectionId = coll,
                                  !.calls = calls]
               IN
               IF empty
               THEN /\ cache' = cache
                    /\ LinkSettle(t, u, Returned(LinkFailure("EmptyName"), variables, bound, calls))
               ELSE IF coll # NoColl
               THEN /\ cache' = EmptyCache
                    /\ UNCHANGED <<variables, bound, linked, lastLink>>
                    /\ Suspend(tasks \ {t}, [u EXCEPT !.pc = "l_colls"])
               ELSE \E o \in CreateOutside(u, calls) : LinkCreated(t, u, o, EmptyCache)

\* the host settles getLocalVariableCollectionsAsync for the creation
\* (part_002 790-913): the list, or [] when it rejected, is cached; the
\* variable is created in the collection of collectionId when the list has
\* it, else without collection
LinkResumeCollsP2(t) ==
  /\ t \in tasks /\ t.kind = "link" /\ t.pc = "l_colls"
  /\ phase = "open"
  /\ UNCHANGED nops
  /\ \E ok \in BOOLEAN :
       LET colls == IF ok THEN CollIds ELSE {}
           calls == Append(t.calls, Call("getLocalVariableCollectionsAsync", ok))
           u == [t EXCEPT !.colls = colls]
       IN \E o \in (IF t.collectionId \in colls
                    THEN CreateInCollection(u, t.collectionId, calls)
                    ELSE CreateOutside(u, calls)) :
            LinkCreated(t, u, o, Cached(colls, t))

\* the host settles getLocalVariableCollectionsAsync for the value of the
\* response (part_002 929-963): linkGapToToken returns success
LinkResumeValueP2(t) ==
  /\ t \in tasks /\ t.kind = "link" /\ t.pc = "l_value"
  /\ phase = "open"
  /\ UNCHANGED nops
  /\ \E ok \in BOOLEAN :
       LET colls == IF ok THEN CollIds ELSE {}
           calls == Append(t.calls, Call("getLocalVariableCollectionsAsync", ok))
       IN /\ cache' = Cached(colls, t)
          /\ LinkSettle(t, t, Returned(LinkSuccess(variables[t.var].name,
                                                   ActiveModeValue(variables[t.var], colls)),
                                       variables, bound, calls))

(***************************************************************************)
(* The synchronous version of part_003: scanSelection (106-138), getGapInfo *)
(* (38-90), getAvailableTokens (93-103) and linkGapToToken (141-222).  A   *)
(* scan awaits nothing; a link awaits the node only.  gapInfo is kept to    *)
(* the fields of the item spacing.  part_001 (141-176, 179-270) differs in  *)
(* its messages only.                                                      *)
(***************************************************************************)
\* node.paddingTop
PaddingTop == [n \in Nodes |-> IF n = "A" THEN 4 ELSE 0]

\* the gapType a link-token message can carry: a property that can be bound,
\* or a string that names none
GapTypesOld == GapTypes \cup {"other"}

\* getAvailableTokens (part_003 93-103): the FLOAT variables by name, each
\* with its id and its name
TokenNamesList(store) ==
  [k \in DOMAIN TokenList(store) |-> [TokenList(store)[k] EXCEPT !.value = NoVal]]

\* scanSelection (part_003 106-138): it returns at once; getVariableName
\* gives null when the host call throws or finds no variable,
\* getAvailableTokens [] when getLocalVariables throws
ScanOld(rest, origin, parent, sel) ==
  LET t == [Task(nops + 1, "scan", origin, "start", ScanReq(sel)) EXCEPT !.parent = parent]
      node == sel[1]
  IN /\ nops' = nops + 1
     /\ UNCHANGED <<bound, variables, cache, linked, lastLink>>
     /\ IF Len(sel) = 0 THEN PostScan(rest, t, <<>>, ScanFailure("SelectFrame"))
        ELSE IF Len(sel) > 1 THEN PostScan(rest, t, <<>>, ScanFailure("SelectOne"))
        ELSE IF ~isFrameOrAutoLayout(node)
        THEN PostScan(rest, t, <<>>, ScanFailure("NotFrame"))
        ELSE \E okVar, okList \in BOOLEAN :
               LET id == IF LayoutMode[node] # "NONE" THEN bound[node].itemSpacing ELSE NoVar
                   asked == id # NoVar /\ hasVars
                   u == [t EXCEPT !.node = node, !.linked = linked[node], !.alias = id]
                   gapInfo == [createGapInfo(node) EXCEPT
                                 !.itemSpacing = IF LayoutMode[node] # "NONE"
                                                 THEN ItemSpacing[node] ELSE NoVal,
                                 !.itemSpacingToken =
                                    IF asked /\ okVar /\ id \in DOMAIN variables
                                    THEN variables[id].name ELSE NoName]
                   calls == (IF asked THEN <<Call("getVariableById", okVar)>> ELSE <<>>)
                            \o (IF hasVars THEN <<Call("getLocalVariables", okList)>> ELSE <<>>)
               IN /\ asked \/ okVar
                  /\ hasVars \/ okList
                  /\ PostScan(rest, u, calls,
                              ScanSuccess(gapInfo, IF hasVars /\ okList
                                                   THEN TokenNamesList(variables) ELSE <<>>))

\* the value of a new variable (part_003 176-185): gapValueMap[gapType] || 0
GapValueOld(t) ==
  CASE t.req.gapType = "itemSpacing" -> ItemSpacing[t.req.nodeId]
    [] t.req.gapType = "paddingTop" -> PaddingTop[t.req.nodeId]
    [] OTHER -> 0

\* Apply variable to gap (part_003 193-215): the property that gapType names
\* is bound, the item spacing only on a node with auto layout; a gapType that
\* names no property binds nothing; the result is success in every case
LinkBindOld(t, id, store, calls) ==
  LET g == t.req.gapType
      binds == g \in Props /\ (g = "itemSpacing" => LayoutMode[t.req.nodeId] # "NONE")
  IN IF binds
     THEN { Thrown(store, bound, Append(calls, CallOn("setBoundVariable", g, FALSE))),
            Returned(LinkSuccess(NoName, NoVal), store,
                     [bound EXCEPT ![t.req.nodeId][g] = id],
                     Append(calls, CallOn("setBoundVariable", g, TRUE))) }
     ELSE { Returned(LinkSuccess(NoName, NoVal), store, bound, calls) }

\* Find or create variable (part_003 170-191): the name is compared and used
\* as it is given
LinkFindOrCreateOld(t, calls) ==
  LET named == {i \in DOMAIN variables : variables[i].name = t.req.tokenName}
      id == NextId(variables)
      created == id :> NewVariable(t.req.tokenName) @@ variables
      valued == [created EXCEPT ![id].vals["m0"] = GapValueOld(t)]
      made == Append(calls, Call("createVariable", TRUE))
  IN IF named # {}
     THEN LinkBindOld(t, CHOOSE i \in named : \A j \in named : i <= j, variables, calls)
     ELSE { Thrown(variables, bound, Append(calls, Call("createVariable", FALSE))),
            Thrown(created, bound, Append(made, Call("setValueForMode", FALSE))) }
          \cup LinkBindOld(t, id, valued, Append(made, Call("setValueForMode", TRUE)))

\* linkGapToToken after the node arrived (part_003 144-215)
LinkAfterNodeOld(t) ==
  LET n == t.req.nodeId
      calls == <<Call("getNodeByIdAsync", TRUE)>>
      got == Append(calls, Call("getVariableById", TRUE))
      listed == Append(calls, Call("getLocalVariables", TRUE))
  IN IF ~isFrameOrAutoLayout(n)
     THEN { Returned(LinkFailure("NodeNotFound"), variables, bound, calls) }
     ELSE IF ~hasVars
     THEN { Returned(LinkFailure("NoVariablesAPI"), variables, bound, calls) }
     ELSE IF t.req.tokenId # NoVar
     THEN { Thrown(variables, bound, Append(calls, Call("getVariableById", FALSE))) }
          \cup IF t.req.tokenId \notin DOMAIN variables
               THEN { Returned(LinkFailure("TokenNotFound"), variables, bound, got) }
               ELSE LinkBindOld(t, t.req.tokenId, variables, got)
     ELSE { Thrown(variables, bound, Append(calls, Call("getLocalVariables", FALSE))) }
          \cup LinkFindOrCreateOld(t, listed)

\* the host settles getNodeByIdAsync (part_003 143): it rejected, or gave the
\* node or null, and linkGapToToken runs to its return
LinkResumeNodeOld(t) ==
  /\ t \in tasks /\ t.kind = "link" /\ t.pc = "l_node"
  /\ phase = "open"
  /\ UNCHANGED <<nops, cache>>
  /\ \E n \in LinkNodes, name \in TokenNames, g \in GapTypesOld, id \in TokenIds :
       LET u == [t EXCEPT !.req = Req(t.req.sel, n, name, g, id, NoVal)] IN
       \/ LinkSettle(t, u, TryCatch(Thrown(variables, bound,
                                           <<Call("getNodeByIdAsync", FALSE)>>)))
       \/ \E o \in LinkAfterNodeOld(u) : LinkSettle(t, u, TryCatch(o))

\* the handlers call the scanSelection of the version that runs
scanSelection(rest, origin, parent, sel) ==
  IF variant = "code" THEN ScanStart(rest, origin, parent, sel)
  ELSE IF variant = "part_002" THEN ScanStartP2(rest, origin, parent, sel)
  ELSE ScanOld(rest, origin, parent, sel)

\* (faulty version: the timer fires and scans nothing)
TimerLost(t) ==
  /\ t \in tasks /\ t.kind = "timer"
  /\ phase = "open"
  /\ tasks' = tasks \ {t}
  /\ UNCHANGED <<nops, bound, variables, cache, linked, lastLink, outbox, returned>>

\* the timer of the re-scan fires (code.js 612-616)
TimerFires(t) ==
  /\ t \in tasks /\ t.kind = "timer"
  /\ phase = "open"
  /\ scanSelection(tasks \ {t}, "relink", t.parent, selection)

(***************************************************************************)
(* The main code and the handlers (code.js 586-634).                       *)
(***************************************************************************)
\* (faulty version: the editor is not tested)
InAnyEditor == TRUE

\* figma.editorType === 'figma' (code.js 587)
InDesignEditor == editorType = "figma"

\* the plugin starts: in the design editor it shows the UI, runs the initial
\* scan and registers the handlers; elsewhere it notifies and closes
Main ==
  /\ phase = "init"
  /\ IF InDesignEditor
     THEN /\ phase' = "open"
          /\ scanSelection(tasks, "start", 0, selection)
     ELSE /\ phase' = "closed"
          /\ NoPost
          /\ UNCHANGED <<bound, variables, cache, linked, lastLink, tasks, nops>>

\* the user changes the selection: the selectionchange handler scans
SelectionChange ==
  /\ phase = "open" /\ nevents < MaxEvents
  /\ nevents' = nevents + 1
  /\ \E sel \in Selections \ {selection} :
       /\ selection' = sel
       /\ scanSelection(tasks, "selectionchange", 0, sel)

\* the UI sends {type: 'scan'}
ScanMessage ==
  /\ phase = "open" /\ nevents < MaxEvents
  /\ nevents' = nevents + 1
  /\ scanSelection(tasks, "scan", 0, selection)

\* the UI sends {type: 'link-token', nodeId, tokenName, gapType, tokenId,
\* tokenValue}: linkGapToToken runs to its await of getNodeByIdAsync
LinkMessage ==
  /\ phase = "open" /\ nevents < MaxEvents
  /\ nevents' = nevents + 1
  /\ nops' = nops + 1
  /\ Suspend(tasks, [Task(nops + 1, "link", "link-token", "l_node", ScanReq(selection))
                        EXCEPT !.during = {t.id : t \in {x \in tasks : x.kind = "link"}}])
  /\ UNCHANGED <<bound, variables, cache, linked, lastLink>>

\* the UI sends {type: 'cancel'}: figma.closePlugin()
CancelMessage ==
  /\ phase = "open"
  /\ phase' = "closed"
  /\ outbox' = outbox
  /\ returned' = Handled("cancel")
  /\ UNCHANGED <<bound, variables, cache, linked, lastLink, tasks, nops, nevents>>

\* the message handler has a branch for the type (code.js 604-629,
\* part_002 996-1040)
Reacts(type) ==
  \/ type \in {"scan", "link-token", "cancel"}
  \/ variant = "part_002" /\ type = "change-viewport"

\* msg.viewport, and viewportWidths[msg.viewport] || 750 (part_002 1023-1029)
Viewports == {"S", "XL"}
ViewportWidth(vp) == CASE vp = "S" -> 375 [] vp = "M" -> 500 [] vp = "L" -> 750
                       [] OTHER -> 750

\* the UI sends {type: 'change-viewport', viewport} (part_002 1021-1040): the
\* UI is resized and told so; nothing is posted when resize throws
ViewportMessage ==
  /\ phase = "open" /\ nevents < MaxEvents
  /\ nevents' = nevents + 1
  /\ \E vp \in Viewports :
       \/ /\ uiWidth' = ViewportWidth(vp)
          /\ Post([Handled("change-viewport") EXCEPT
                     !.type = "viewport-changed", !.calls = <<Call("resize", TRUE)>>])
       \/ /\ uiWidth' = uiWidth
          /\ outbox' = outbox
          /\ returned' = [Handled("change-viewport") EXCEPT
                            !.calls = <<Call("resize", FALSE)>>]
  /\ UNCHANGED <<bound, variables, cache, linked, lastLink, tasks, nops>>

\* (faulty version: a message of another type is answered)
OtherMessageAnswered ==
  /\ phase = "open"
  /\ \E type \in OtherTypes :
       /\ ~Reacts(type)
       /\ Post([Handled(type) EXCEPT !.type = "unknown-message"])
  /\ UNCHANGED <<bound, variables, cache, linked, lastLink, tasks, nops, nevents>>

\* the UI sends a message of another type: no branch of the handler takes it
\* (code.js 604-629, part_002 996-1040)
OtherMessage ==
  /\ phase = "open"
  /\ \E type \in OtherTypes :
       /\ ~Reacts(type)
       /\ outbox' = outbox
       /\ returned' = Handled(type)
  /\ UNCHANGED <<bound, variables, cache, linked, lastLink, tasks, nops, nevents>>

\* what no continuation changes
Static == UNCHANGED <<variant, editorType, hasVars, phase, selection, uiWidth, nevents>>

\* the state after construction, the version v running
Start(v) ==
  /\ variant = v
  /\ editorType \in {"figma", "figjam"}
  /\ hasVars \in BOOLEAN
  /\ phase = "init"
  /\ selection \in InitSelections
  /\ bound = InitBound
  /\ variables = InitVariables
  /\ cache = EmptyCache
  /\ lastLink = NoLink
  /\ uiWidth = ShownWidth
  /\ tasks = {}
  /\ outbox = <<>>
  /\ returned = NoReturn
  /\ linked = [n \in Nodes |-> NoVar]
  /\ nops = 0
  /\ nevents = 0

Init == Start("code")

Next ==
  \/ Main /\ UNCHANGED <<variant, editorType, hasVars, uiWidth, selection, nevents>>
  \/ SelectionChange /\ UNCHANGED <<variant, editorType, hasVars, uiWidth, phase>>
  \/ ScanMessage /\ UNCHANGED <<variant, editorType, hasVars, uiWidth, phase, selection>>
  \/ LinkMessage /\ UNCHANGED <<variant, editorType, hasVars, uiWidth, phase, selection>>
  \/ CancelMessage /\ UNCHANGED <<variant, editorType, hasVars, uiWidth, selection>>
  \/ OtherMessage /\ UNCHANGED <<variant, editorType, hasVars, uiWidth, phase, selection>>
  \/ \E t \in tasks : ScanResumeVar(t) /\ Static
  \/ \E t \in tasks : ScanResumeColls(t) /\ Static
  \/ \E t \in tasks : ScanResumeTokens(t) /\ Static
  \/ \E t \in tasks : LinkResumeNode(t) /\ Static
  \/ \E t \in tasks : LinkResumeVariables(t) /\ Static
  \/ \E t \in tasks : TimerFires(t) /\ Static

Spec == Init /\ [][Next]_vars

\* the version of part_002 runs
IsP2 == variant = "part_002"

\* the steps of the plugin of part_002
NextP2 ==
  \/ IsP2 /\ Main /\ UNCHANGED <<variant, editorType, hasVars, uiWidth, selection, nevents>>
  \/ IsP2 /\ SelectionChange /\ UNCHANGED <<variant, editorType, hasVars, uiWidth, phase>>
  \/ IsP2 /\ ScanMessage /\ UNCHANGED <<variant, editorType, hasVars, uiWidth, phase, selection>>
  \/ IsP2 /\ LinkMessage /\ UNCHANGED <<variant, editorType, hasVars, uiWidth, phase, selection>>
  \/ IsP2 /\ CancelMessage /\ UNCHANGED <<variant, editorType, hasVars, uiWidth, selection>>
  \/ IsP2 /\ ViewportMessage /\ UNCHANGED <<variant, editorType, hasVars, phase, selection>>
  \/ IsP2 /\ OtherMessage /\ UNCHANGED <<variant, editorType, hasVars, uiWidth, phase, selection>>
  \/ IsP2 /\ \E t \in tasks : ScanResumeVarP2(t) /\ Static
  \/ IsP2 /\ \E t \in tasks : ScanResumeCollsP2(t) /\ Static
  \/ IsP2 /\ \E t \in tasks : ScanResumeTokensP2(t) /\ Static
  \/ IsP2 /\ \E t \in tasks : LinkResumeNodeP2(t) /\ Static
  \/ IsP2 /\ \E t \in tasks : LinkResumeVarP2(t) /\ Static
  \/ IsP2 /\ \E t \in tasks : LinkResumeVariablesP2(t) /\ Static
  \/ IsP2 /\ \E t \in tasks : LinkResumeCollsP2(t) /\ Static
  \/ IsP2 /\ \E t \in tasks : LinkResumeValueP2(t) /\ Static
  \/ IsP2 /\ \E t \in tasks : TimerFires(t) /\ Static

\* the repository: either version of the plugin runs
InitAll == \E v \in Variants : Start(v)

NextAll ==
  \/ variant = "code" /\ Next
  \/ NextP2

SpecAll == InitAll /\ [][NextAll]_vars

\* the version of part_003 runs
IsOld == variant = "part_003"

\* the steps of the plugin of part_003
NextOld ==
  \/ IsOld /\ Main /\ UNCHANGED <<variant, editorType, hasVars, uiWidth, selection, nevents>>
  \/ IsOld /\ SelectionChange /\ UNCHANGED <<variant, editorType, hasVars, uiWidth, phase>>
  \/ IsOld /\ ScanMessage /\ UNCHANGED <<variant, editorType, hasVars, uiWidth, phase, selection>>
  \/ IsOld /\ LinkMessage /\ UNCHANGED <<variant, editorType, hasVars, uiWidth, phase, selection>>
  \/ IsOld /\ CancelMessage /\ UNCHANGED <<variant, editorType, hasVars, uiWidth, selection>>
  \/ IsOld /\ OtherMessage /\ UNCHANGED <<variant, editorType, hasVars, uiWidth, phase, selection>>
  \/ IsOld /\ \E t \in tasks : LinkResumeNodeOld(t) /\ Static
  \/ IsOld /\ \E t \in tasks : TimerFires(t) /\ Static

SpecOld == Start("part_003") /\ [][NextOld]_vars

(***************************************************************************)
(* Properties.  Each is stated on `returned`: the operation that returned  *)
(* in the last step, its request, the host calls it made, the message      *)
(* posted for it and the state its last step began in.                     *)
(***************************************************************************)
\* the node types the plugin audits
Containers == {"FRAME", "COMPONENT", "COMPONENT_SET", "INSTANCE"}

ScanReturned == returned.type = "scan-result"
LinkReturned == returned.type = "link-result"

\* the selection is exactly one container node with auto layout enabled
OneAutoLayout(sel) ==
  /\ Len(sel) = 1
  /\ NodeType[sel[1]] \in Containers
  /\ LayoutMode[sel[1]] # "NONE"

\* a host call of the returned operation failed
CallFailed(op) ==
  \E i \in DOMAIN returned.calls : returned.calls[i].op = op /\ ~returned.calls[i].ok

\* the returned record is {success: false, message} with a message
IsFailure == ~returned.success /\ returned.message # ""

\* C1: scanSelection returns {success: false, message}, with no gapInfo and no
\* availableTokens, whenever the selection is empty, has more than one node,
\* or its single node is not a container or has layoutMode 'NONE'; it returns
\* success: true only when exactly one container with auto layout is selected.
C1_ScanFailureCases ==
  ScanReturned =>
    /\ ~OneAutoLayout(returned.req.sel) =>
          IsFailure /\ ~returned.hasGapInfo /\ ~returned.hasTokens
    /\ returned.success => OneAutoLayout(returned.req.sel)

\* a scan of a container without auto layout has returned
C1_Witness ==
  ScanReturned /\ returned.req.sel = <<"N">> /\ IsFailure

\* the host calls of linkGapToToken whose failure must fail the link: node
\* lookup, variable lookup by id, variable listing, variable creation,
\* setValueForMode, setBoundVariable
MustSucceed ==
  {"getNodeByIdAsync", "getVariableById", "getLocalVariablesAsync", "createVariable",
   "setValueForMode", "setBoundVariable"}

\* C2: linkGapToToken is never fatal: whatever its arguments and whichever of
\* its host calls fails, its promise resolves (the result is posted by .then,
\* not by .catch), to {success: false, message} when the call that failed is
\* one of those above, and the plugin stays open.
C2_LinkNeverFatal ==
  LinkReturned =>
    /\ returned.via = "then"
    /\ phase = "open"
    /\ (\E op \in MustSucceed : CallFailed(op)) => IsFailure

\* a link whose setBoundVariable call threw has returned
C2_Witness ==
  LinkReturned /\ CallFailed("setBoundVariable") /\ returned.via = "then" /\ IsFailure

\* C3: linkGapToToken without a tokenId creates a variable only when no local
\* variable has the token name: if one has, it is the one bound and the
\* variables are unchanged; otherwise exactly one variable is created, under
\* the trimmed token name, which is the name of no variable that existed.
C3_CreatesOnlyWhenAbsent ==
  LET old == returned.before.variables
      named == {i \in DOMAIN old : old[i].name = returned.req.tokenName}
      new == DOMAIN variables \ DOMAIN old
  IN (LinkReturned /\ returned.req.tokenId = NoVar) =>
       IF named # {}
       THEN /\ variables = old
            /\ returned.success => bound[returned.req.nodeId].itemSpacing \in named
       ELSE /\ Cardinality(new) <= 1
            /\ returned.success => Cardinality(new) = 1
            /\ \A i \in new :
                 /\ variables[i].name = Trim(returned.req.tokenName)
                 /\ \A j \in DOMAIN old : old[j].name # variables[i].name

\* C4: after linkGapToToken returned success for node N and variable V, a
\* scanSelection run while N is the only selected node (V still existing)
\* returns success: true with gapInfo.itemSpacingTokenId the id of V and
\* gapInfo.itemSpacingToken the name of V.
C4_RoundTripAlways ==
  (ScanReturned /\ Len(returned.req.sel) = 1 /\ returned.linked \in DOMAIN variables) =>
    /\ returned.success
    /\ returned.gapInfo.itemSpacingTokenId = returned.linked
    /\ returned.gapInfo.itemSpacingToken = variables[returned.linked].name

\* C4, as the code has it: the same, when the host's getVariableByIdAsync
\* does not fail during that scan (when it fails the scan returns
\* success: false with the message 'Error al resolver el token').
C4_RoundTrip ==
  (ScanReturned /\ Len(returned.req.sel) = 1 /\ returned.linked \in DOMAIN variables) =>
    IF CallFailed("getVariableByIdAsync")
    THEN IsFailure /\ returned.message = "ResolveError"
    ELSE /\ returned.success
         /\ returned.gapInfo.itemSpacingTokenId = returned.linked
         /\ returned.gapInfo.itemSpacingToken = variables[returned.linked].name

\* the re-scan of a successful link has returned the variable linked
C4_Witness ==
  /\ ScanReturned /\ returned.origin = "relink" /\ returned.req.sel = <<"A">>
  /\ returned.linked \in DOMAIN variables /\ returned.success
  /\ returned.gapInfo.itemSpacingTokenId = returned.linked

\* C5: every variable that linkGapToToken binds to a node's itemSpacing,
\* selected by tokenId, found by name or newly created, has resolvedType FLOAT.
C5_BindsOnlyFloat ==
  (LinkReturned /\ returned.success) =>
    variables[bound[returned.req.nodeId].itemSpacing].type = "FLOAT"

\* the operations started so far, by id
Ops == 1..nops

\* the positions in outbox of the messages posted for operation id
ResultsOf(id) == {i \in 1..Len(outbox) : outbox[i].op = id}

\* operation id has not returned yet
InFlight(id) == \E t \in tasks : t.id = id /\ t.kind \in {"scan", "link"}

\* the host settles the promise task t awaits, or fires its timer
Resume(t) ==
  /\ Static
  /\ \/ ScanResumeVar(t)
     \/ ScanResumeColls(t)
     \/ ScanResumeTokens(t)
     \/ LinkResumeNode(t)
     \/ LinkResumeVariables(t)
     \/ TimerFires(t)

\* nothing runs any more: the plugin is closed, or it is open with no
\* function in flight and no timer set
Quiescent == phase = "closed" \/ (phase = "open" /\ tasks = {})

\* what starts a scan other than a link's timer
ScanOrigins == {"start", "scan", "selectionchange"}

\* the re-scans started so far
Rescans ==
  Cardinality({t \in tasks : t.kind = "scan" /\ t.origin = "relink"})
    + Cardinality({i \in 1..Len(outbox) : outbox[i].origin = "relink"})

\* C6: every 'scan' message, every selectionchange event and the plugin start
\* each eventually cause exactly one 'scan-result' message, whose data is the
\* result of the scanSelection call the event started: once nothing runs any
\* more, the plugin start has its scan-result and no scan is left unanswered.
C6_ScanAlwaysAnswered ==
  Quiescent =>
    /\ Cardinality({i \in 1..Len(outbox) : outbox[i].origin = "start"}) = 1
    /\ \A t \in tasks : ~(t.kind = "scan" /\ t.origin \in ScanOrigins)
    /\ \A id \in Ops : Cardinality(ResultsOf(id)) <= 1

\* C6, as the code has it: in the design editor, and unless the plugin is
\* closed first.  Every event has started one operation; an operation is in
\* flight with no message posted for it, or has returned with exactly one,
\* a scan-result for a scan; while the plugin is open a scan in flight can
\* always go on; so with the plugin open and nothing in flight every scan
\* has exactly one scan-result.
C6_ScanAnsweredWhileOpen ==
  /\ (editorType = "figma" /\ phase # "init") => nops = 1 + nevents + Rescans
  /\ \A id \in Ops :
       IF InFlight(id) THEN ResultsOf(id) = {} ELSE Cardinality(ResultsOf(id)) = 1
  /\ \A i \in 1..Len(outbox) :
       outbox[i].origin \in ScanOrigins \cup {"relink"} <=> outbox[i].type = "scan-result"
  /\ ScanReturned => outbox[Len(outbox)] = Header(returned)
  /\ phase = "open" => \A t \in tasks : t.kind = "scan" => ENABLED Resume(t)

\* a 'scan' message and a selection change have both been answered
C6_Witness ==
  /\ phase = "open" /\ tasks = {}
  /\ \E i, j \in 1..Len(outbox) :
       outbox[i].origin = "scan" /\ outbox[j].origin = "selectionchange"

\* C7: every 'link-token' message causes exactly one 'link-result' message;
\* when the result came from linkGapToToken a re-scan is started afterwards,
\* whose 'scan-result' is posted after the link-result: once nothing runs any
\* more no link and no re-scan is left unanswered.
C7_LinkAlwaysAnswered ==
  Quiescent =>
    /\ \A t \in tasks : t.kind = "scan" /\ t.origin \in ScanOrigins
    /\ \A i \in 1..Len(outbox) :
         (outbox[i].type = "link-result" /\ outbox[i].via = "then") =>
           \E j \in (i + 1)..Len(outbox) : outbox[j].parent = outbox[i].op

\* the re-scans of link operation id: timers set, scans in flight, results
RescansOf(id) ==
  Cardinality({t \in tasks : t.parent = id})
    + Cardinality({j \in 1..Len(outbox) : outbox[j].parent = id})

\* C7, as the code has it: unless the plugin is closed first.  A link is in
\* flight with no message posted for it, or has exactly one link-result; a
\* link-result posted by .then has exactly one re-scan (its timer, the scan
\* in flight or its scan-result), a link-result posted by .catch has none;
\* the scan-result of a re-scan comes after the link-result; while the
\* plugin is open whatever is in flight can always go on.
C7_LinkAnsweredWhileOpen ==
  /\ \A t \in tasks : t.kind = "link" => ResultsOf(t.id) = {}
  /\ \A i \in 1..Len(outbox) :
       outbox[i].type = "link-result" =>
         /\ outbox[i].origin = "link-token"
         /\ ResultsOf(outbox[i].op) = {i}
         /\ RescansOf(outbox[i].op) = IF outbox[i].via = "then" THEN 1 ELSE 0
  /\ \A j \in 1..Len(outbox) :
       outbox[j].origin = "relink" =>
         \E i \in 1..(j - 1) :
           outbox[i].type = "link-result" /\ outbox[i].op = outbox[j].parent
  /\ \A t \in tasks :
       t.parent # 0 =>
         \E i \in 1..Len(outbox) :
           outbox[i].type = "link-result" /\ outbox[i].op = t.parent
  /\ phase = "open" => \A t \in tasks : ENABLED Resume(t)

\* a link and its re-scan have both been answered, in that order
C7_Witness ==
  /\ phase = "open" /\ tasks = {}
  /\ \E i, j \in 1..Len(outbox) :
       /\ i < j /\ outbox[i].type = "link-result"
       /\ outbox[j].type = "scan-result" /\ outbox[j].parent = outbox[i].op

\* C8: after a linkGapToToken call that created a variable or changed a
\* binding has completed, variableCollectionsCache is null.
C8_CacheInvalidatedOnWrite ==
  (LinkReturned /\ (variables # returned.before.variables
                      \/ bound # returned.before.bound)) =>
    cache = EmptyCache

\* C9: when figma.variables is absent, or the host's variable listing fails,
\* while a single valid auto-layout node is scanned, the scan result is
\* success: false with a non-empty message.
C9_VariablesFailureReported ==
  (/\ ScanReturned
   /\ OneAutoLayout(returned.req.sel)
   /\ (~hasVars \/ CallFailed("getLocalVariablesAsync"))) => IsFailure

\* C10: linkGapToToken on a container whose layoutMode is 'NONE' returns
\* success: false, creates no variable and leaves every binding of the node
\* unchanged, whatever tokenName, tokenId and tokenValue are.
C10_AutoLayoutRequired ==
  LET n == returned.req.nodeId IN
  (LinkReturned /\ n \in Nodes /\ NodeType[n] \in Containers /\ LayoutMode[n] = "NONE") =>
    /\ ~returned.success
    /\ variables = returned.before.variables
    /\ bound[n] = returned.before.bound[n]

\* a link by token id on a container without auto layout has returned
C10_Witness ==
  /\ LinkReturned /\ returned.req.nodeId = "N" /\ returned.req.tokenId = 1
  /\ returned.req.gapType = "itemSpacing" /\ returned.message = "NoAutoLayout"

\* the five token fields of a gapInfo are null
NoToken(g) ==
  /\ g.itemSpacingToken = NoName /\ g.itemSpacingTokenValue = NoVal
  /\ g.itemSpacingTokenId = NoVar /\ g.itemSpacingTokenFullPath = <<>>
  /\ g.itemSpacingTokenCollectionPath = ""

\* the gapInfo of a scan that returned success is what C11 says of the node
\* scanned: its itemSpacing; for a gap bound to variable v the name, the id
\* and the full path of v (its collection is found when it is among those
\* getAllVariableCollections returned to the scan); for a gap not bound, no
\* token
GapInfoAsDetected ==
  LET n == returned.req.sel[1]
      g == returned.gapInfo
      v == variables[returned.alias]
  IN /\ g.itemSpacing = ItemSpacing[n]
     /\ returned.alias = NoVar => NoToken(g)
     /\ returned.alias # NoVar =>
          /\ g.itemSpacingToken = v.name
          /\ g.itemSpacingTokenId = returned.alias
          /\ g.itemSpacingTokenFullPath =
               IF v.coll = NoColl THEN v.name
               ELSE IF v.coll \in returned.colls THEN <<CollName[v.coll], "/">> \o v.name
               ELSE <<v.coll, "/">> \o v.name

\* C11: for a container with auto layout getGapInfo reports the node's
\* itemSpacing; when the gap is bound to an existing variable it reports the
\* variable's name, id and full path 'collectionName/name' ('collectionId/name'
\* when the collection is not found, the name alone when the variable has no
\* collection); when the gap is not bound the five token fields are null.
C11_TokenDetectedAlways ==
  (/\ ScanReturned /\ OneAutoLayout(returned.req.sel)
   /\ returned.alias \in DOMAIN variables \cup {NoVar}) =>
    returned.hasGapInfo /\ GapInfoAsDetected

\* C11, as the code has it: the same, when the Variables API is there and the
\* host's getVariableByIdAsync does not fail; when the lookup fails no gapInfo
\* is reported (the scan returns success: false, 'Error al resolver el token').
C11_TokenDetected ==
  (/\ ScanReturned /\ OneAutoLayout(returned.req.sel)
   /\ returned.alias \in DOMAIN variables \cup {NoVar}) =>
    IF returned.alias # NoVar /\ (~hasVars \/ CallFailed("getVariableByIdAsync"))
    THEN IsFailure /\ returned.message = "ResolveError" /\ ~returned.hasGapInfo
    ELSE returned.hasGapInfo /\ GapInfoAsDetected

\* a scan of a node whose gap is bound to a variable of a collection has
\* returned the path 'collectionName/name'
C11_Witness ==
  /\ ScanReturned /\ returned.success /\ returned.req.sel = <<"B">>
  /\ returned.gapInfo.itemSpacingTokenFullPath = <<"Spacing", "/", "a">>

\* the list is exactly the FLOAT variables of the store, each once with its
\* id and name, in ascending order of name, each value a number or null
ExactlyFloats(list, store) ==
  /\ {list[k].id : k \in DOMAIN list} = {i \in DOMAIN store : store[i].type = "FLOAT"}
  /\ \A k, l \in DOMAIN list : list[k].id = list[l].id => k = l
  /\ \A k \in DOMAIN list :
       /\ list[k].name = store[list[k].id].name
       /\ list[k].value \in Nat \cup {NoVal, NaNVal}
  /\ \A k, l \in DOMAIN list : k < l => ~NameLess(list[l].name, list[k].name)

\* C12: getAvailableTokens returns exactly the local variables whose
\* resolvedType is FLOAT, each once with its id and name and none of another
\* type, in ascending order of name; each value is a number or null.
C12_TokensAreTheFloats ==
  (ScanReturned /\ returned.hasTokens) =>
    ExactlyFloats(returned.availableTokens, variables)

\* what holds of the list when the host answered the listing
TokensWhenListed ==
  (ScanReturned /\ returned.hasTokens /\ hasVars /\ ~CallFailed("getLocalVariablesAsync")) =>
    ExactlyFloats(returned.availableTokens, variables)

\* a link that returned success on a node whose gap was bound to an existing
\* variable has left that variable as it was
RelinkKeepsOldToken ==
  LET n == returned.req.nodeId
      a == returned.before.bound[n].itemSpacing
  IN (LinkReturned /\ returned.success /\ a \in DOMAIN returned.before.variables) =>
       /\ a \in DOMAIN variables
       /\ variables[a] = returned.before.variables[a]

\* C13: re-linking replaces the binding: after a successful linkGapToToken on
\* a node whose itemSpacing was bound to another token, that token still
\* exists unchanged; and linking the same token to the same node twice in a
\* row leaves the state the first link left and creates no further variable.
C13_RelinkIdempotent ==
  /\ RelinkKeepsOldToken
  /\ (/\ LinkReturned /\ returned.success
      /\ returned.before.lastLink = TokenOf(returned.req)) =>
       /\ variables = returned.before.variables
       /\ bound = returned.before.bound

\* the request of the returned link names an auto-layout container, the
\* Variables API is there, and the lookups of the node and of the variable
\* did not fail
ReachedTokenLookup ==
  /\ isFrameOrAutoLayout(returned.req.nodeId)
  /\ LayoutMode[returned.req.nodeId] # "NONE"
  /\ hasVars
  /\ ~CallFailed("getNodeByIdAsync") /\ ~CallFailed("getVariableById")

\* C14: with a tokenId, linkGapToToken binds the variable with that id,
\* whatever tokenName is (the name it answers with is the variable's), and
\* creates no variable; when no variable has that id it returns success:
\* false, with the message 'No se pudo encontrar el token seleccionado' once
\* it has come to the lookup, and leaves the bindings and the variables as
\* they were.
C14_LinkByTokenId ==
  LET n == returned.req.nodeId
      id == returned.req.tokenId
  IN (LinkReturned /\ id # NoVar) =>
       /\ variables = returned.before.variables
       /\ returned.success =>
            /\ bound[n].itemSpacing = id
            /\ returned.tokenName = variables[id].name
       /\ id \notin DOMAIN returned.before.variables =>
            /\ IsFailure
            /\ bound = returned.before.bound
            /\ ReachedTokenLookup => returned.message = "TokenNotFound"

\* a link with the id of a variable and the name of none has bound the variable
C14_Witness ==
  /\ LinkReturned /\ returned.success
  /\ returned.req.tokenId = 1 /\ returned.req.tokenName = <<"n">>
  /\ bound["A"].itemSpacing = 1

\* the variables the returned link created
Created == DOMAIN variables \ DOMAIN returned.before.variables

\* C15: the value of a variable that linkGapToToken created is the tokenValue
\* of the request when one is given (0 included), else the itemSpacing of the
\* node, else 0; it is always a finite number.
C15_CreatedValue ==
  LET req == returned.req IN
  (LinkReturned /\ returned.success) =>
    \A i \in Created :
      /\ FirstModeValue(variables[i]) \in Nat
      /\ FirstModeValue(variables[i]) =
           IF req.tokenValue # NoVal THEN req.tokenValue ELSE ItemSpacing[req.nodeId]

\* what holds of the value when the tokenValue given is a finite number or none
CreatedValueWhenFinite ==
  LET req == returned.req IN
  (LinkReturned /\ returned.success /\ req.tokenValue # NaNVal) =>
    \A i \in Created :
      /\ FirstModeValue(variables[i]) \in Nat
      /\ FirstModeValue(variables[i]) =
           IF req.tokenValue # NoVal THEN req.tokenValue ELSE ItemSpacing[req.nodeId]

\* C19: outside the Figma design editor the plugin only notifies and closes:
\* it never opens (no UI, no handler registered, so no event is taken), runs
\* no scan and no link, posts nothing and changes nothing, and once the main
\* code has run the plugin is closed.
C19_OutsideDesignEditor ==
  editorType # "figma" =>
    /\ phase \in {"init", "closed"}
    /\ nops = 0 /\ nevents = 0 /\ tasks = {}
    /\ outbox = <<>> /\ returned = NoReturn
    /\ variables = InitVariables /\ bound = InitBound /\ cache = EmptyCache

\* the main code has run in FigJam
C19_Witness == editorType = "figjam" /\ phase = "closed"

\* scanSelection runs in this step: a scan begins, goes on or returns
ScanRuns ==
  \/ \E t \in tasks : t.kind = "scan" /\ t \notin tasks'
  \/ \E t \in tasks' : t.kind = "scan" /\ t \notin tasks
  \/ returned'.type = "scan-result"

\* the scan that begins in this step is that of a selectionchange event
BySelectionChange ==
  \/ \E t \in tasks' \ tasks : t.origin = "selectionchange"
  \/ returned'.origin = "selectionchange"

\* C20: the read path is read-only: a step of scanSelection changes no
\* binding and no variable (node properties and collections never change);
\* the selection changes only in the selectionchange event that starts the
\* scan, and the only change to the cache is that it is filled.
C20_ScanReadOnly ==
  [][ScanRuns =>
        /\ bound' = bound /\ variables' = variables
        /\ linked' = linked /\ lastLink' = lastLink
        /\ selection' # selection => BySelectionChange
        /\ cache' # cache => cache'.filled]_vars

\* a scan that filled the cache has returned
C20_Witness ==
  /\ ScanReturned /\ returned.success /\ cache.filled
  /\ \E i \in DOMAIN returned.calls :
       returned.calls[i] = Call("getLocalVariableCollectionsAsync", TRUE)

\* the gap value a link-token request chooses: its tokenValue when that is a
\* finite number, else the gap of the node
ChosenGap(req) ==
  IF req.tokenValue \notin {NoVal, NaNVal} THEN req.tokenValue
  ELSE ItemSpacing[req.nodeId]

\* linkGapToToken, called with the id of a collection of the document,
\* created a token and returned success
CreatedForCollection ==
  /\ LinkReturned /\ returned.success
  /\ returned.created # NoVar
  /\ returned.collectionId \in CollIds

\* the token linkGapToToken created is in the collection of collectionId and
\* has the chosen gap value in the active mode of that collection
CreatedInItsCollection ==
  /\ variables[returned.created].coll = returned.collectionId
  /\ variables[returned.created].vals[ActiveMode(returned.collectionId)]
       = ChosenGap(returned.req)

\* C16: when linkGapToToken creates a token for the collection identified by
\* collectionId and returns success, the token belongs to that collection and
\* its value in the collection's default mode (first mode when it has no
\* default) is the chosen gap value.
C16_CreatedInCollection == CreatedForCollection => CreatedInItsCollection

\* the same when the host gave linkGapToToken the list of collections
CreatedInCollectionWhenListed ==
  (/\ CreatedForCollection
   /\ \E i \in DOMAIN returned.calls :
        /\ returned.calls[i] = Call("getLocalVariableCollectionsAsync", TRUE)
        /\ \E j \in DOMAIN returned.calls :
             i < j /\ returned.calls[j].op = "createVariable")
  => CreatedInItsCollection

\* the host calls of the operation that returned
Calls == returned.calls

\* the same host call (on the same mode) was issued at i and again at j
IssuedAgain(i, j) ==
  /\ i \in DOMAIN Calls /\ j \in DOMAIN Calls /\ i < j
  /\ Calls[i].op = Calls[j].op /\ Calls[i].arg = Calls[j].arg

VerificationFailedBefore(j) ==
  \E k \in 1..(j - 1) : Calls[k].op = "getValueForMode" /\ ~Calls[k].ok

Handles(type) ==
  returned'.origin = type /\ returned'.type \notin {"scan-result", "link-result"}

\* the step changes nothing of the plugin and the document, but possibly
\* the phase and the width of the UI
NothingElseChanges ==
  UNCHANGED <<variant, editorType, hasVars, selection, bound, variables, cache, tasks,
              linked, lastLink, nops>>

\* the step posts nothing, calls no host operation and changes no state
DoesNothing ==
  /\ NothingElseChanges
  /\ UNCHANGED <<phase, uiWidth, outbox>>
  /\ returned'.calls = <<>>

\* C18 (as stated): the plugin reacts to three UI message types only: cancel
\* closes the plugin, and a message of a type other than scan, link-token and
\* cancel posts nothing to the UI, calls no host operation and changes no
\* state.
C18_ThreeMessageTypes ==
  [][/\ Handles("cancel") => phase' = "closed"
     /\ \A type \in OtherTypes : Handles(type) => DoesNothing]_vars

\* C18 (amended): cancel closes the plugin and does nothing else.  In code.js
\* a message of any other type than scan, link-token and cancel does nothing.
\* part_002 reacts to a fourth type, change-viewport: it resizes the UI and,
\* unless resize throws, posts 'viewport-changed', and changes nothing else;
\* a message of any further type does nothing.
C18_MessageTypes ==
  [][/\ Handles("cancel") =>
          phase' = "closed" /\ NothingElseChanges /\ UNCHANGED <<uiWidth, outbox>>
     /\ \A type \in OtherTypes :
          Handles(type) =>
            IF variant = "part_002" /\ type = "change-viewport"
            THEN /\ NothingElseChanges /\ phase' = phase
                 /\ \/ /\ returned'.calls = <<Call("resize", TRUE)>>
                       /\ uiWidth' \in {ViewportWidth(vp) : vp \in Viewports}
                       /\ outbox' = Append(outbox, Header(returned'))
                       /\ returned'.type = "viewport-changed"
                    \/ /\ returned'.calls = <<Call("resize", FALSE)>>
                       /\ UNCHANGED <<uiWidth, outbox>>
            ELSE DoesNothing]_vars

\* a message of a type the handler has no branch for was handled while an
\* operation was in flight and after a message was posted
C18_Witness ==
  /\ returned.type = "" /\ returned.origin \in OtherTypes /\ ~Reacts(returned.origin)
  /\ tasks # {} /\ outbox # <<>>

(***************************************************************************)
(* The cache of getAllVariableCollections.                                 *)
(***************************************************************************)
\* the functions that wait for the host to list the collections
Fetching == {t \in tasks : t.pc \in FetchPcs}

\* in this step getAllVariableCollections asks the host for the collections
IssuesFetch == \E t \in tasks' \ tasks : t.pc \in FetchPcs

\* the host call op is among the calls of the operation that returned
Called(op) == \E i \in DOMAIN Calls : Calls[i].op = op

\* C21 (as stated), in code.js, which never resets the cache:
\* getAllVariableCollections calls the host's collection-listing operation at
\* most once, so no two of its calls ever wait for the host at the same time.
C21_OneFetchBetweenResets ==
  variant = "code" => Cardinality(Fetching) <= 1

\* C21 (amended): getAllVariableCollections asks the host for the collections
\* only while the cache is empty: once a fetch has completed (with a list, or
\* with a failure cached as the empty list) no call asks the host again until
\* the cache is reset.  Calls that overlap before the first fetch completes
\* each ask the host.  Without the Variables API no call asks the host and
\* nothing is cached.
C21_FetchOnlyWhenEmpty ==
  [][/\ IssuesFetch => hasVars /\ ~cache'.filled
     /\ ~hasVars => cache' = EmptyCache]_vars

\* a scan of a node bound to a variable of a collection has returned the
\* cached collections without asking the host
C21_Witness ==
  /\ ScanReturned /\ returned.success
  /\ returned.alias \in DOMAIN variables
  /\ variables[returned.alias].coll # NoColl
  /\ returned.before.cache.filled
  /\ returned.colls = returned.before.cache.colls
  /\ ~Called("getLocalVariableCollectionsAsync")

(***************************************************************************)
(* Operations in flight together.                                          *)
(***************************************************************************)
\* the positions in outbox of the scan results
ScanResults == {i \in 1..Len(outbox) : outbox[i].type = "scan-result"}

\* C22: scan results reach the UI in the order the scans were started: no
\* scan-result is posted after the scan-result of a scan that was started
\* later (operations are numbered in the order they start).
C22_ScanResultsInOrder ==
  \A i, j \in ScanResults : i < j => outbox[i].op < outbox[j].op

\* the variables created since the plugin started
CreatedSince == DOMAIN variables \ DOMAIN InitVariables

\* C23: two overlapping link-token requests that name the same token, which
\* does not exist yet, create at most one variable of that name: a link that
\* was called while another was in flight and has created a variable leaves
\* no other created variable of the same name.
C23_OneVariablePerName ==
  (LinkReturned /\ returned.req.tokenId = NoVar /\ returned.during # {}) =>
    \A i \in Created : \A j \in CreatedSince \ {i} :
      variables[j].name # variables[i].name

\* the fetch task t waits for was issued before a variable was created
IssuedBeforeCreation(t) ==
  t.pc \in FetchPcs /\ t.asof < Cardinality(DOMAIN variables)

\* C24: in part_002, which resets the cache when a token is created, a fetch
\* of the collections that was issued before a creation and settles after it
\* does not repopulate the cache: the step in which such a fetch settles
\* leaves the cache empty, or filled by a fetch issued after the creation.
C24_NoStaleRepopulation ==
  [][\A t \in tasks \ tasks' :
       (variant = "part_002" /\ IssuedBeforeCreation(t)) =>
         (cache'.filled => cache'.asof >= Cardinality(DOMAIN variables))]_vars

(***************************************************************************)
(* What linkGapToToken changes.                                            *)
(***************************************************************************)
\* C25: a link that fails (success: false) changes nothing: the variables
\* and their values are as before the call, and no binding has changed.
C25_FailedLinkChangesNothing ==
  (LinkReturned /\ ~returned.success) =>
    /\ variables = returned.before.variables
    /\ bound = returned.before.bound

\* a failed link leaves the bindings as they were
FailedLinkKeepsBindings ==
  (LinkReturned /\ ~returned.success) => bound = returned.before.bound

\* C26: linkGapToToken changes at most the itemSpacing binding of the node
\* nodeId: it changes the binding of no other node and of no other property,
\* and no existing variable (so no value of one).
C26_LinkFrame ==
  LinkReturned =>
    /\ \A n \in Nodes, p \in Props :
         (n # returned.req.nodeId \/ p # "itemSpacing") =>
           bound[n][p] = returned.before.bound[n][p]
    /\ \A i \in DOMAIN returned.before.variables :
         i \in DOMAIN variables /\ variables[i] = returned.before.variables[i]

\* a link has changed the itemSpacing binding of its node, which has another
\* property bound, while another node has its itemSpacing bound
C26_Witness ==
  /\ LinkReturned /\ returned.success
  /\ bound[returned.req.nodeId].itemSpacing # returned.before.bound[returned.req.nodeId].itemSpacing
  /\ bound[returned.req.nodeId].paddingTop # NoVar
  /\ \E n \in Nodes \ {returned.req.nodeId} : bound[n].itemSpacing # NoVar

(***************************************************************************)
(* The values and the failures of a scan.                                  *)
(***************************************************************************)
\* C28: within one successful scan result the value of the bound token,
\* gapInfo.itemSpacingTokenValue, is the value availableTokens gives for the
\* token of the same id.
C28_SameValueInBoth ==
  (ScanReturned /\ returned.success) =>
    \A k \in DOMAIN returned.availableTokens :
      returned.availableTokens[k].id = returned.gapInfo.itemSpacingTokenId =>
        returned.availableTokens[k].value = returned.gapInfo.itemSpacingTokenValue

\* the scan that returned found the gap bound to a variable that the
\* document does not have
BoundToMissing ==
  ScanReturned /\ returned.alias # NoVar /\ returned.alias \notin DOMAIN variables

\* C29 (as stated): a node whose gap is bound to a variable that no longer
\* exists cannot be scanned successfully: scanSelection returns success:
\* false with the message 'Variable no encontrada', and delivers neither
\* gapInfo nor availableTokens.
C29_MissingVariableMessage ==
  BoundToMissing =>
    /\ ~returned.success /\ returned.message = "VariableNotFound"
    /\ ~returned.hasGapInfo /\ ~returned.hasTokens

\* C29 (amended): such a scan returns success: false and delivers neither
\* gapInfo nor availableTokens; its message is 'Variable no encontrada' when
\* the host answered the lookup of the variable, and 'Error al resolver el
\* token' when the lookup threw or there is no Variables API.
C29_MissingVariableFails ==
  BoundToMissing =>
    /\ ~returned.success
    /\ ~returned.hasGapInfo /\ ~returned.hasTokens
    /\ returned.message =
         IF hasVars /\ ~CallFailed("getVariableByIdAsync")
         THEN "VariableNotFound" ELSE "ResolveError"

\* the scan of a frame bound to a deleted variable has returned 'Variable no
\* encontrada'
C29_Witness ==
  /\ BoundToMissing /\ returned.req.sel = <<"D">>
  /\ Called("getVariableByIdAsync")
  /\ returned.message = "VariableNotFound"

\* the token name of the request is missing, empty or only whitespace
BlankName == returned.req.tokenName = NoName \/ Trim(returned.req.tokenName) = <<>>

\* the link that returned came to the validation of the token name: the
\* checks of the node passed and the host listed the variables
ReachedNameValidation ==
  /\ isFrameOrAutoLayout(returned.req.nodeId)
  /\ LayoutMode[returned.req.nodeId] # "NONE"
  /\ hasVars
  /\ ~CallFailed("getNodeByIdAsync") /\ ~CallFailed("getLocalVariablesAsync")

\* C30: without a tokenId, when no variable has the token name and the name
\* is missing, empty or only whitespace, linkGapToToken returns success:
\* false, creates no variable and leaves the bindings unchanged; the message
\* is 'El nombre del token no puede estar vacío' once the call has come to
\* the validation of the name.
C30_BlankNameRejected ==
  (/\ LinkReturned /\ returned.req.tokenId = NoVar /\ BlankName
   /\ \A i \in DOMAIN returned.before.variables :
        returned.before.variables[i].name # returned.req.tokenName) =>
    /\ IsFailure
    /\ ~Called("createVariable") /\ ~Called("setBoundVariable")
    /\ variables = returned.before.variables
    /\ bound = returned.before.bound
    /\ ReachedNameValidation => returned.message = "EmptyName"

\* a link with a name of whitespace has been refused for its name
C30_Witness ==
  /\ LinkReturned /\ returned.req.tokenId = NoVar
  /\ returned.req.tokenName = <<" ">>
  /\ returned.message = "EmptyName"
  /\ Called("getLocalVariablesAsync")

\* the property the request names has been bound in the call that returned
BoundAsRequested ==
  /\ returned.req.gapType \in Props
  /\ \E i \in DOMAIN Calls : Calls[i].op = "setBoundVariable" /\ Calls[i].ok
  /\ bound[returned.req.nodeId][returned.req.gapType] # NoVar

\* C27: linkGapToToken returns success: true only if setBoundVariable was
\* applied to the requested property during the call: a request that binds
\* nothing (a gapType that names no property, or the item spacing of a node
\* whose layoutMode is NONE) returns success: false.
C27_SuccessMeansBound ==
  (LinkReturned /\ returned.success) => BoundAsRequested

=============================================================================
